---- MODULE Spec2Model ----
(***************************************************************************)
(* A model of the AwesomeTTS service router (awesometts/classes/router.py) *)
(* together with the worker pool it owns and the callables the add-on      *)
(* package hands to it (awesometts/__init__.py).                           *)
(*                                                                         *)
(* Python strings are sequences of one-character strings, a dict is a      *)
(* function, a list is a sequence.  An exception is a record whose cls     *)
(* field is the Python class and whose std field says whether that class   *)
(* derives from StandardError (the only ones the router's handlers catch). *)
(* The SHA-1 digest is taken to be injective: the digest of a string is    *)
(* represented by the string itself.                                       *)
(***************************************************************************)
EXTENDS Integers, Sequences, FiniteSets, TLC

(***************************************************************************)
(* Characters and the string helpers of Python the code relies on.         *)
(***************************************************************************)
UpperChars == <<"A","B","C","D","E","F","G","H","I","J","K","L","M",
                "N","O","P","Q","R","S","T","U","V","W","X","Y","Z">>

LowerChars == <<"a","b","c","d","e","f","g","h","i","j","k","l","m",
                "n","o","p","q","r","s","t","u","v","w","x","y","z">>

DigitChars == <<"0","1","2","3","4","5","6","7","8","9">>

Range(s) == {s[i] : i \in DOMAIN s}

UpperSet == Range(UpperChars)

AlphaSet == Range(UpperChars) \cup Range(LowerChars)

DigitSet == Range(DigitChars)

\* char.lower() for the upper-case letters
LowerOf ==
    [c \in UpperSet |->
        LowerChars[CHOOSE i \in DOMAIN UpperChars : UpperChars[i] = c]]

IsUpper(c) == c \in UpperSet

IsAlpha(c) == c \in AlphaSet

IsDigit(c) == c \in DigitSet

IsSpace(c) == c \in {" ", "\t", "\n"}

ToLower(c) == IF IsUpper(c) THEN LowerOf[c] ELSE c

LowerStr(s) == [i \in DOMAIN s |-> ToLower(s[i])]

\* str.strip(): drop leading and trailing whitespace
RECURSIVE LStrip(_)
LStrip(s) ==
    IF s # <<>> /\ IsSpace(Head(s)) THEN LStrip(Tail(s)) ELSE s

RECURSIVE RStrip(_)
RStrip(s) ==
    IF s # <<>> /\ IsSpace(s[Len(s)])
    THEN RStrip(SubSeq(s, 1, Len(s) - 1))
    ELSE s

Strip(s) == RStrip(LStrip(s))

\* TO_NORMALIZED: keep letters and digits, lower-cased
TO_NORMALIZED(value) ==
    LowerStr(SelectSeq(value, LAMBDA c : IsAlpha(c) \/ IsDigit(c)))

\* RE_WHITESPACE.sub(' ', text): every maximal run of whitespace becomes ' '
RECURSIVE CollapseSpace(_)
CollapseSpace(s) ==
    IF s = <<>> THEN <<>>
    ELSE IF IsSpace(Head(s))
         THEN <<" ">> \o CollapseSpace(LStrip(s))
         ELSE <<Head(s)>> \o CollapseSpace(Tail(s))

STRIP_WHITESPACE(text) == Strip(CollapseSpace(text))

\* position of the first occurrence of character c in s at or after i, or 0
FirstAt(s, c, i) ==
    IF \E j \in i..Len(s) : s[j] = c
    THEN CHOOSE j \in i..Len(s) : s[j] = c /\ \A k \in i..(j - 1) : s[k] # c
    ELSE 0

SoundOpen == <<"[","s","o","u","n","d",":">>

\* length of the match of \[sound:[^\]]+\] (ignoring case) at the head of s,
\* or 0 when the pattern does not match there
SoundMatch(s) ==
    IF Len(s) >= Len(SoundOpen) + 2
       /\ LowerStr(SubSeq(s, 1, Len(SoundOpen))) = SoundOpen
       /\ FirstAt(s, "]", Len(SoundOpen) + 1) > Len(SoundOpen) + 1
    THEN FirstAt(s, "]", Len(SoundOpen) + 1)
    ELSE 0

RECURSIVE SubSounds(_)
SubSounds(s) ==
    IF s = <<>> THEN <<>>
    ELSE IF SoundMatch(s) > 0
         THEN SubSounds(SubSeq(s, SoundMatch(s) + 1, Len(s)))
         ELSE <<Head(s)>> \o SubSounds(Tail(s))

STRIP_SOUNDS(text) == Strip(SubSounds(text))

\* length of the match of <.*?> at the head of s ('.' matches no newline)
TagMatch(s) ==
    IF s # <<>> /\ Head(s) = "<" /\ FirstAt(s, ">", 2) > 0
       /\ \A k \in 2..FirstAt(s, ">", 2) : s[k] # "\n"
    THEN FirstAt(s, ">", 2)
    ELSE 0

RECURSIVE STRIP_HTML(_)
STRIP_HTML(s) ==
    IF s = <<>> THEN <<>>
    ELSE IF TagMatch(s) > 0
         THEN STRIP_HTML(SubSeq(s, TagMatch(s) + 1, Len(s)))
         ELSE <<Head(s)>> \o STRIP_HTML(Tail(s))

STRIP_ALL(text) == STRIP_WHITESPACE(STRIP_SOUNDS(STRIP_HTML(text)))

(***************************************************************************)
(* Exceptions.                                                             *)
(***************************************************************************)
Exc(cls, std, what, args) ==
    [cls |-> cls, std |-> std, what |-> what, args |-> args]

NoExc == [cls |-> "None", std |-> TRUE, what |-> "none", args |-> <<>>]

\* the exceptions a service may raise from its constructor or from run():
\* one that derives from StandardError and one that derives from Exception only
ServiceErrors ==
    { Exc("IOError", TRUE, "service", <<>>),
      Exc("ServiceError", FALSE, "service", <<>>) }

(***************************************************************************)
(* The services bundle handed to Router.__init__.                          *)
(***************************************************************************)
Str(t) == [t |-> "str", v |-> t]

Int_(n) == [t |-> "int", v |-> n]

S_google == <<"g","o","o","g","l","e">>

S_espeak == <<"e","s","p","e","a","k">>

K_voice == <<"v","o","i","c","e">>

K_speed == <<"s","p","e","e","d">>

V_en == <<"e","n">>

V_fr == <<"f","r">>

\* services.mappings: (service ID, class); a class is named by its ID here
Mappings ==
    << <<<<"G","o","o","g","l","e">>, "Google">>, <<S_espeak, "ESpeak">> >>

\* services.aliases: (alternate ID, official ID)
Aliases == << <<<<"g">>, S_google>> >>

\* svc_class.NAME (None when the class declares none)
ClassName(class) ==
    IF class = "ESpeak" THEN <<"e","S","p","e","a","k">> ELSE <<>>

\* svc_class.TRAITS
ClassTraits(class) ==
    IF class = "Google" THEN <<"INTERNET">> ELSE <<>>

\* what instance.options() of a class returns: a list of option dicts
ClassOptions(class) ==
    IF class = "Google"
    THEN << [key |-> K_voice, label |-> <<"Voice">>,
             values |-> [type |-> "list",
                         items |-> << <<Str(V_en), <<"English">>>>,
                                      <<Str(V_fr), <<"French">>>> >>],
             transform |-> "lower"],
            [key |-> K_speed, label |-> <<"Speed", ":">>,
             values |-> [type |-> "tuple", items |-> <<1, 9>>],
             transform |-> "int",
             default |-> Int_(5)],
            \* a list of one item
            [key |-> <<"c","o","d","e","c">>, label |-> <<"Codec">>,
             values |-> [type |-> "list",
                         items |-> << <<Str(<<"m","p","3">>), <<"MP3">>>> >>],
             transform |-> "lower",
             default |-> Str(<<"m","p","3">>)] >>
    ELSE << [key |-> K_voice, label |-> <<"Voice">>,
             values |-> [type |-> "list",
                         items |-> << <<Str(V_en), <<"Alex">>>>,
                                      <<Str(V_fr), <<"Amelie">>>> >>],
             transform |-> "lower",
             default |-> Str(V_en)],
            \* a descriptor that declares no label
            [key |-> K_speed,
             values |-> [type |-> "tuple", items |-> <<1, 9>>],
             transform |-> "int"] >>

\* services.aliases after __init__: normalized alternate -> normalized official
aliases ==
    [a \in {TO_NORMALIZED(Aliases[i][1]) : i \in DOMAIN Aliases} |->
        TO_NORMALIZED(
            Aliases[CHOOSE i \in DOMAIN Aliases :
                        TO_NORMALIZED(Aliases[i][1]) = a][2])]

\* the keys of services.lookup after __init__
SvcIds == {TO_NORMALIZED(Mappings[i][1]) : i \in DOMAIN Mappings}

MappingOf(svc) ==
    Mappings[CHOOSE i \in DOMAIN Mappings : TO_NORMALIZED(Mappings[i][1]) = svc]

\* services.lookup[svc]['class'], ['name'] and ['traits'] after __init__
lookup ==
    [svc \in SvcIds |->
        [class  |-> MappingOf(svc)[2],
         name   |-> IF ClassName(MappingOf(svc)[2]) # <<>>
                    THEN ClassName(MappingOf(svc)[2])
                    ELSE MappingOf(svc)[1],
         traits |-> ClassTraits(MappingOf(svc)[2])]]

(***************************************************************************)
(* Option transforms (the 'transform' callables of the option dicts).      *)
(***************************************************************************)
DigitValues ==
    [c \in DigitSet |-> (CHOOSE i \in DOMAIN DigitChars : DigitChars[i] = c) - 1]

DigitValue(c) == DigitValues[c]

RECURSIVE DigitsValue(_)
DigitsValue(s) ==
    IF s = <<>> THEN 0
    ELSE 10 * DigitsValue(SubSeq(s, 1, Len(s) - 1)) + DigitValue(s[Len(s)])

\* int(string): surrounding whitespace and one sign are allowed, then digits
IntBody(s) ==
    IF s # <<>> /\ Head(s) \in {"+", "-"} THEN Tail(s) ELSE s

IntParses(s) ==
    /\ IntBody(Strip(s)) # <<>>
    /\ \A i \in DOMAIN IntBody(Strip(s)) : IsDigit(IntBody(Strip(s))[i])

IntParse(s) ==
    IF Strip(s) # <<>> /\ Head(Strip(s)) = "-"
    THEN 0 - DigitsValue(IntBody(Strip(s)))
    ELSE DigitsValue(IntBody(Strip(s)))

\* svc_option['transform'](value): [ok, value]; ok = FALSE is a ValueError
Transform(name, value) ==
    IF name = "int"
    THEN IF value.t = "int" THEN [ok |-> TRUE, value |-> value]
         ELSE IF IntParses(value.v)
              THEN [ok |-> TRUE, value |-> Int_(IntParse(value.v))]
              ELSE [ok |-> FALSE, value |-> value]
    ELSE [ok |-> TRUE, value |-> Str(LowerStr(Strip(value.v)))]

\* str(value)
RECURSIVE NatStr(_)
NatStr(n) ==
    IF n < 10 THEN <<DigitChars[n + 1]>>
    ELSE NatStr(n \div 10) \o <<DigitChars[(n % 10) + 1]>>

PyStr(value) ==
    IF value.t = "int"
    THEN IF value.v < 0 THEN <<"-">> \o NatStr(0 - value.v) ELSE NatStr(value.v)
    ELSE value.v

(***************************************************************************)
(* Router._validate_options                                                *)
(***************************************************************************)
\* a test that leaves the two ends of a range out
InValues_Exclusive(values, transformed_value) ==
    IF values.type = "tuple"
    THEN ~ (transformed_value.v <= values.items[1]
            \/ transformed_value.v >= values.items[2])
    ELSE \E i \in DOMAIN values.items : values.items[i][1] = transformed_value

InValues(values, transformed_value) ==
    IF values.type = "tuple"
    THEN ~ (transformed_value.v < values.items[1]
            \/ transformed_value.v > values.items[2])
    ELSE \E i \in DOMAIN values.items : values.items[i][1] = transformed_value

\* an iteration that sets the default of an option whether it is passed or
\* not
ValidateOne_DefaultWins(st, svc_option) ==
    IF "default" \in DOMAIN svc_option
    THEN [options  |-> (svc_option.key :> svc_option.default) @@ st.options,
          problems |-> st.problems]
    ELSE IF svc_option.key \in DOMAIN st.options
    THEN [options  |-> [st.options EXCEPT ![svc_option.key] =
                           Transform(svc_option.transform, @).value],
          problems |-> st.problems]
    ELSE [options  |-> st.options,
          problems |-> Append(st.problems,
              [kind |-> "required", key |-> svc_option.key,
               value |-> Str(<<>>), detail |-> "required"])]

\* one iteration of the loop over svc_options: [options, problems]
ValidateOne(st, svc_option) ==
    LET key == svc_option.key
        options == st.options
    IN  IF key \in DOMAIN options
        THEN LET tr == Transform(svc_option.transform, options[key])
             IN  IF ~ tr.ok
                 THEN [options  |-> options,
                       problems |-> Append(st.problems,
                           [kind |-> "invalid", key |-> key,
                            value |-> options[key], detail |-> "transform"])]
                 ELSE IF InValues(svc_option.values, tr.value)
                 THEN [options  |-> [options EXCEPT ![key] = tr.value],
                       problems |-> st.problems]
                 ELSE IF svc_option.values.type = "tuple"
                 THEN [options  |-> options,
                       problems |-> Append(st.problems,
                           [kind |-> "invalid", key |-> key,
                            value |-> options[key], detail |-> "outside"])]
                 ELSE [options  |-> options,
                       problems |-> Append(st.problems,
                           [kind |-> "not an option", key |-> key,
                            value |-> options[key],
                            detail |-> [i \in DOMAIN svc_option.values.items |->
                                           svc_option.values.items[i][1]]])]
        ELSE IF "default" \in DOMAIN svc_option
        THEN [options  |-> (key :> svc_option.default) @@ options,
              problems |-> st.problems]
        ELSE [options  |-> options,
              problems |-> Append(st.problems,
                  [kind |-> "required", key |-> key,
                   value |-> Str(<<>>), detail |-> "required"])]

\* a loop that ends at the first problem found
RECURSIVE ValidateFrom_StopAtFirst(_, _, _)
ValidateFrom_StopAtFirst(st, svc_options, i) ==
    IF i > Len(svc_options) \/ st.problems # <<>> THEN st
    ELSE ValidateFrom_StopAtFirst(ValidateOne(st, svc_options[i]),
                                  svc_options, i + 1)

RECURSIVE ValidateFrom(_, _, _)
ValidateFrom(st, svc_options, i) ==
    IF i > Len(svc_options) THEN st
    ELSE ValidateFrom(ValidateOne(st, svc_options[i]), svc_options, i + 1)

\* a loop that passes over the options that are not passed and have a default
validate_options_DefaultsLeftOut(options, svc_options) ==
    ValidateFrom([options |-> options, problems |-> <<>>],
                 SelectSeq(svc_options,
                           LAMBDA svc_option :
                               \/ svc_option.key \in DOMAIN options
                               \/ "default" \notin DOMAIN svc_option),
                 1)

\* the options dict as the loop leaves it, and the list of problems returned
validate_options(options, svc_options) ==
    ValidateFrom([options |-> options, problems |-> <<>>], svc_options, 1)

\* the dict comprehension of _validate_service: keys are normalized and the
\* ones the service does not declare are dropped; when several passed keys
\* normalize to the same key, the dict's iteration order decides which value
\* is kept, so every one of them is a possible result
\* a comprehension without its filter on the declared keys
NormalizedOptions_KeepAll(options, svc_options) ==
    LET keys == {TO_NORMALIZED(k) : k \in DOMAIN options}
    IN  { f \in [keys -> {options[k] : k \in DOMAIN options}] :
            \A key \in keys :
                \E k \in DOMAIN options :
                    TO_NORMALIZED(k) = key /\ options[k] = f[key] }

NormalizedOptions(options, svc_options) ==
    LET svc_options_keys == {svc_options[i].key : i \in DOMAIN svc_options}
        keys == {TO_NORMALIZED(k) : k \in DOMAIN options} \cap svc_options_keys
    IN  { f \in [keys -> {options[k] : k \in DOMAIN options}] :
            \A key \in keys :
                \E k \in DOMAIN options :
                    TO_NORMALIZED(k) = key /\ options[k] = f[key] }

(***************************************************************************)
(* Router._path_cache                                                      *)
(***************************************************************************)
\* ord(c) for the letters and digits
CharOrds ==
    [c \in AlphaSet \cup DigitSet |->
        IF c \in DigitSet THEN 48 + DigitValues[c]
        ELSE IF c \in UpperSet
             THEN 64 + CHOOSE i \in DOMAIN UpperChars : UpperChars[i] = c
             ELSE 96 + CHOOSE i \in DOMAIN LowerChars : LowerChars[i] = c]

\* ord(c); a character that is neither a letter nor a digit sorts as a space
CharOrd(c) == IF c \in DOMAIN CharOrds THEN CharOrds[c] ELSE 32

\* a < b for Python strings
RECURSIVE StrLess(_, _)
StrLess(a, b) ==
    IF b = <<>> THEN FALSE
    ELSE IF a = <<>> THEN TRUE
    ELSE IF Head(a) = Head(b) THEN StrLess(Tail(a), Tail(b))
    ELSE CharOrd(Head(a)) < CharOrd(Head(b))

\* the keys of a dict in the order sorted(options.items()) visits them
RECURSIVE SortedKeys(_)
SortedKeys(keys) ==
    IF keys = {} THEN <<>>
    ELSE LET least == CHOOSE k \in keys :
                          \A other \in keys \ {k} : StrLess(k, other)
         IN  <<least>> \o SortedKeys(keys \ {least})

\* separator.join(parts)
RECURSIVE Join(_, _)
Join(separator, parts) ==
    IF parts = <<>> THEN <<>>
    ELSE IF Len(parts) = 1 THEN parts[1]
    ELSE parts[1] \o separator \o Join(separator, Tail(parts))

HashInput(svc_id, text, options) ==
    Join(<<"/">>,
         << text,
            svc_id,
            Join(<<";">>,
                 [i \in 1..Cardinality(DOMAIN options) |->
                     Join(<<"=">>,
                          << SortedKeys(DOMAIN options)[i],
                             PyStr(options[SortedKeys(DOMAIN options)[i]]) >>)])
         >>)

\* the path in the cache directory: '<svc_id>-<sha1 hex digest>.mp3'
path_cache(svc_id, text, options) ==
    [svc |-> svc_id, digest |-> HashInput(svc_id, text, options), ext |-> "mp3"]

(***************************************************************************)
(* Router._fetch_options: the checks on one option dict and the changes    *)
(* made to it before it is appended to service['options'].                 *)
(***************************************************************************)
OptionAsserts(option) ==
    /\ "key" \in DOMAIN option
    /\ TO_NORMALIZED(option.key) = option.key
    /\ "label" \in DOMAIN option
    /\ "values" \in DOMAIN option
    /\ \/ option.values.type = "list"
       \/ option.values.type = "tuple" /\ Len(option.values.items) \in 2..3
    /\ "transform" \in DOMAIN option

WithColon(option) ==
    IF option.label = <<>> \/ option.label[Len(option.label)] # ":"
    THEN [option EXCEPT !.label = Append(@, ":")]
    ELSE option

WithDefaultMarked(option) ==
    IF "default" \in DOMAIN option /\ option.values.type = "list"
    THEN [option EXCEPT !.values.items =
             [i \in DOMAIN @ |->
                 IF @[i][1] # option.default THEN @[i]
                 ELSE <<@[i][1], Append(@[i][2], " [default]")>>]]
    ELSE option

\* a loop that leaves out the descriptors that fail an assertion
RECURSIVE BuildOptions_SkipBad(_, _, _)
BuildOptions_SkipBad(built, declared, i) ==
    IF i > Len(declared) THEN [val |-> built, failed |-> FALSE]
    ELSE IF ~ OptionAsserts(declared[i])
    THEN BuildOptions_SkipBad(built, declared, i + 1)
    ELSE BuildOptions_SkipBad(
             Append(built, WithDefaultMarked(WithColon(declared[i]))),
             declared, i + 1)

\* the loop over instance.options(): the list built so far, and whether an
\* assertion stopped the loop
RECURSIVE BuildOptions(_, _, _)
BuildOptions(built, declared, i) ==
    IF i > Len(declared) THEN [val |-> built, failed |-> FALSE]
    ELSE IF ~ OptionAsserts(declared[i]) THEN [val |-> built, failed |-> TRUE]
    ELSE BuildOptions(Append(built, WithDefaultMarked(WithColon(declared[i]))),
                      declared, i + 1)

(***************************************************************************)
(* Bounds and the inputs the operations are called with.                   *)
(***************************************************************************)
\* how many workers the pool is asked to spawn in one run of the model
MaxWorkers == 2

T_hi == <<"H","i">>

\* the (svc_id, text, options) arguments Router.__call__ is called with
Requests ==
    { \* two spellings of one request, the second leaving 'speed' to its default
      [svc_id |-> <<"g">>, text |-> <<" ","H","i","\n">>,
       options |-> (<<"V","o","i","c","e">> :> Str(<<" ","E","N">>))
                       @@ (K_speed :> Str(<<"5">>))],
      [svc_id |-> <<"G","o","o","g","l","e">>, text |-> T_hi,
       options |-> (K_voice :> Str(V_en)) @@ (<<"j","u","n","k">> :> Str(<<"1">>))],
      \* a text that is empty once normalized, for a service that does not exist
      [svc_id |-> <<"x">>, text |-> <<"[","s","o","u","n","d",":","x","]"," ">>,
       options |-> (K_speed :> Str(<<"1","2">>))],
      \* a service that does not exist
      [svc_id |-> <<"x">>, text |-> T_hi, options |-> (K_voice :> Str(V_en))],
      \* a voice that is not an option and a speed outside of its range
      [svc_id |-> S_google, text |-> T_hi,
       options |-> (K_voice :> Str(<<"x">>)) @@ (K_speed :> Str(<<"1","2">>))],
      \* the required 'voice' is missing
      [svc_id |-> <<"g">>, text |-> T_hi, options |-> <<>>],
      \* the other service
      [svc_id |-> S_espeak, text |-> T_hi, options |-> (K_voice :> Str(V_fr))] }

RawSvcIds == {request.svc_id : request \in Requests}

\* STRIP_ALL of the texts above, worked out once
Textized == [text \in {request.text : request \in Requests} |-> STRIP_ALL(text)]

\* the callbacks dict: which keys it holds and whether each is callable
GoodCallbacks ==
    { [okay |-> TRUE, fail |-> TRUE],
      [done |-> TRUE, okay |-> TRUE, fail |-> TRUE] }

BadCallbacks ==
    { [done |-> FALSE, okay |-> TRUE, fail |-> TRUE],
      [done |-> TRUE, fail |-> TRUE],
      [done |-> TRUE, okay |-> TRUE, fail |-> FALSE] }

\* the calls made: every request with every well-formed callbacks dict, and
\* every malformed callbacks dict with one request
Calls ==
    (Requests \X GoodCallbacks)
        \cup ({r \in Requests : r.svc_id = S_google} \X BadCallbacks)

\* what constructing a service does: it succeeds (NoExc) or it raises
CtorOutcomes == {NoExc} \cup ServiceErrors

Traits == {"INTERNET", "TRANSCODING"}

(***************************************************************************)
(* State.                                                                  *)
(***************************************************************************)
VARIABLES
    services,    \* per service: the 'instance', 'options' and 'desc' entries
    avail,       \* services.avail
    busy,        \* Router._busy
    next_id,     \* _Pool._next_id
    callbacks,   \* _Pool._callbacks
    workers,     \* _Pool._workers, with where each worker thread is
    signals,     \* the signals emitted by workers and not yet delivered
    disk,        \* the cache paths that exist on the filesystem
    invoked,     \* which of each service's constructor, options() and desc()
                 \* have been invoked
    last         \* the last call made on the controlling thread and what it did

vars ==
    <<services, avail, busy, next_id, callbacks, workers, signals, disk,
      invoked, last>>

Raised(exception) == exception.cls # "None"

\* Rest of the value worked out by one statement: 'v = value; Rest(v)'
With(value, Rest(_)) == Rest(value)

NoPath == [svc |-> <<>>, digest |-> <<>>, ext |-> "none"]

Unset == [set |-> FALSE, val |-> <<>>]

Set(val) == [set |-> TRUE, val |-> val]

\* a path that an earlier session may have left in the cache directory
OldPath ==
    path_cache(S_google, T_hi,
               (K_voice :> Str(V_en)) @@ (K_speed :> Int_(5))
                   @@ (<<"c","o","d","e","c">> :> Str(<<"m","p","3">>)))

Init ==
    /\ services = [svc \in SvcIds |->
                      [instance |-> "unset", options |-> Unset, desc |-> Unset]]
    /\ avail = [none |-> TRUE, val |-> <<>>]
    /\ busy = <<>>
    /\ next_id = 0
    /\ callbacks = <<>>
    /\ workers = <<>>
    /\ signals = <<>>
    /\ disk \in {{}, {OldPath}}
    /\ invoked = [svc \in SvcIds |->
                     [ctor |-> FALSE, options |-> FALSE, desc |-> FALSE]]
    /\ last = [op |-> "none", req |-> <<>>, raised |-> NoExc, log |-> <<>>,
               existed |-> FALSE, was_busy |-> FALSE,
               steps |-> <<>>, repeated |-> <<>>, svc_id |-> <<>>,
               text |-> <<>>, options |-> <<>>, path |-> NoPath,
               cache_hit |-> FALSE, spawned |-> 0, result |-> <<>>]

(***************************************************************************)
(* Router._load_service, _fetch_service, _fetch_options.  Each takes the   *)
(* registry st = [services, invoked, ...] and returns it as the call       *)
(* leaves it, with the exception raised (NoExc when it returns), the steps *)
(* taken, and the methods of a service invoked though invoked before.      *)
(***************************************************************************)
\* the registry as a call finds it
Registry ==
    [services |-> services, invoked |-> invoked, raised |-> NoExc,
     steps |-> <<>>, repeated |-> <<>>, svc_id |-> <<>>]

\* a service's constructor, options() or desc() is invoked
Invoke(st, svc, method) ==
    [st EXCEPT !.invoked[svc][method] = TRUE,
               !.steps = Append(@, method),
               !.repeated = IF st.invoked[svc][method]
                            THEN Append(@, <<svc, method>>)
                            ELSE @]

load_service(st, svc, ctor) ==
    IF st.services[svc].instance # "unset"
    THEN [st EXCEPT !.raised = NoExc]
    ELSE IF ~ Raised(ctor)
    THEN [Invoke(st, svc, "ctor") EXCEPT !.services[svc].instance = "live",
                                         !.raised = NoExc]
    ELSE IF ctor.std
    THEN [Invoke(st, svc, "ctor") EXCEPT !.services[svc].instance = "None",
                                         !.raised = NoExc]
    ELSE [Invoke(st, svc, "ctor") EXCEPT !.raised = ctor]

\* a lookup that does not go through the aliases
ResolveId_NoAliases(svc_id) == TO_NORMALIZED(svc_id)

\* svc_id after normalization and the aliases lookup
ResolveId(svc_id) ==
    LET id == TO_NORMALIZED(svc_id)
    IN  IF id \in DOMAIN aliases THEN aliases[id] ELSE id

\* _fetch_service once svc_id is normalized and looked up in the aliases
FetchResolved(st, id, ctor) ==
    IF id \notin DOMAIN lookup
    THEN [st EXCEPT !.svc_id = id, !.steps = Append(@, "lookup"),
                    !.raised = Exc("ValueError", TRUE, "There is no service",
                                   <<id>>)]
    ELSE With(load_service([st EXCEPT !.svc_id = id,
                                      !.steps = Append(@, "lookup")],
                           id, ctor),
              LAMBDA st2 :
                 IF Raised(st2.raised) THEN st2
                 ELSE IF st2.services[id].instance # "live"
                 THEN [st2 EXCEPT !.raised =
                          Exc("EnvironmentError", TRUE,
                              "service is not currently available",
                              <<lookup[id].name>>)]
                 ELSE st2)

fetch_service(st, svc_id, ctor) ==
    With(ResolveId(svc_id), LAMBDA id : FetchResolved(st, id, ctor))

\* service['options'] as the loop over instance.options() leaves it
WithOptions(st, id, built) ==
    [Invoke(st, id, "options") EXCEPT
        !.services[id].options = Set(built.val),
        !.raised = IF built.failed
                   THEN Exc("AssertionError", TRUE, "bad option", <<id>>)
                   ELSE NoExc]

fetch_options(st, svc_id, ctor) ==
    With(fetch_service(st, svc_id, ctor),
         LAMBDA st1 :
            IF Raised(st1.raised) THEN st1
            ELSE IF st1.services[st1.svc_id].options.set THEN st1
            ELSE WithOptions(st1, st1.svc_id,
                     BuildOptions(<<>>,
                                  ClassOptions(lookup[st1.svc_id].class), 1)))

\* the outcomes of its constructor that a call naming svc_id can meet: there
\* is one to choose only when the call constructs the service
Ctors(svc_id) ==
    LET id == ResolveId(svc_id)
    IN  IF id \in DOMAIN lookup /\ services[id].instance = "unset"
        THEN CtorOutcomes
        ELSE {NoExc}

(***************************************************************************)
(* Router.__call__                                                         *)
(***************************************************************************)
\* the three assert statements on the callbacks dict
CallbacksAssert(cbs) ==
    /\ "done" \notin DOMAIN cbs \/ cbs.done
    /\ "okay" \in DOMAIN cbs /\ cbs.okay
    /\ "fail" \in DOMAIN cbs /\ cbs.fail

\* a router that passes the text on as it was given
textize_Raw(text) == text

\* services.textize(text)
textize(text) ==
    IF text \in DOMAIN Textized THEN Textized[text] ELSE STRIP_ALL(text)

\* a _validate_text that lets every text through
TextIsEmpty_Never(normalized) == FALSE

\* 'if not text' in Router._validate_text, of the text normalized
TextIsEmpty(normalized) == normalized = <<>>

\* a _validate_path that finds no path busy
InBusy_Never(path, busy_list) == FALSE

\* path in self._busy
\* a router that runs one worker at a time: busy while any path is in _busy
InBusy_Any(path, busy_list) == busy_list # <<>>

InBusy(path, busy_list) == \E i \in DOMAIN busy_list : busy_list[i] = path

\* a test of the disk that finds no file
Exists_Never(path, files) == FALSE

\* a test that also takes a file for present because it once was
Exists_Remembered(path, files) ==
    path \in files \/ path.digest = <<"H","i","/","g","o","o","g","l","e","/",
                                      "c","o","d","e","c","=","m","p","3",";",
                                      "s","p","e","e","d","=","5",";",
                                      "v","o","i","c","e","=","e","n">>

\* os.path.exists(path)
Exists(path, files) == path \in files

\* one invocation of a callback: which one, its argument, and self._busy as
\* the callback finds it
Event(cb, arg, busy_list) == [cb |-> cb, arg |-> arg, busy |-> busy_list]

\* 'done' in callbacks and callbacks['done']()
DoneEvents(cbs, busy_list) ==
    IF "done" \in DOMAIN cbs THEN <<Event("done", <<>>, busy_list)>> ELSE <<>>

Outcome(st, text, options, path, cache_hit) ==
    [services |-> st.services, invoked |-> st.invoked, raised |-> st.raised,
     steps |-> st.steps, repeated |-> st.repeated, svc_id |-> st.svc_id,
     text |-> text,
     options |-> options, path |-> path, cache_hit |-> cache_hit]

\* _validate_options on the normalized dict, _validate_path and the
\* os.path.exists test: what the try block does once the service is fetched
\* the two tests made in the other order: the disk first, then _busy
Locate_ExistsFirst(st, text, options, path) ==
    IF Exists(path, disk)
    THEN Outcome([st EXCEPT !.steps = @ \o <<"path_cache", "exists?">>],
                 text, options, path, TRUE)
    ELSE IF InBusy(path, busy)
    THEN Outcome([st EXCEPT !.steps = @ \o <<"path_cache", "exists?", "busy?">>,
                            !.raised = Exc("BusyError", TRUE, "already busy",
                                           <<path>>)],
                 text, options, path, FALSE)
    ELSE Outcome([st EXCEPT !.steps = @ \o <<"path_cache", "exists?", "busy?">>],
                 text, options, path, FALSE)

\* _validate_path and the os.path.exists test, for the path computed
Locate(st, text, options, path) ==
    IF InBusy(path, busy)
    THEN Outcome([st EXCEPT !.steps = @ \o <<"path_cache", "busy?">>,
                            !.raised = Exc("BusyError", TRUE, "already busy",
                                           <<path>>)],
                 text, options, path, FALSE)
    ELSE Outcome([st EXCEPT !.steps = @ \o <<"path_cache", "busy?", "exists?">>],
                 text, options, path, Exists(path, disk))

ValidateAndLocate(st, text, options) ==
    With(validate_options(options, st.services[st.svc_id].options.val),
         LAMBDA v :
            IF v.problems # <<>>
            THEN Outcome([st EXCEPT !.steps = Append(@, "validate_options"),
                                    !.raised =
                                        Exc("ValueError", TRUE,
                                            "Running the service failed",
                                            v.problems)],
                         text, <<>>, NoPath, FALSE)
            ELSE Locate([st EXCEPT !.steps = Append(@, "validate_options")],
                        text, v.options, path_cache(st.svc_id, text, v.options)))

\* the try block of __call__: every way it can end for the given arguments
\* the try block once the text is normalized and found not to be empty
TryService(svc_id, text, options, ctor) ==
    With(fetch_options([Registry EXCEPT !.steps = <<"textize">>], svc_id, ctor),
         LAMBDA st :
            IF Raised(st.raised)
            THEN { Outcome(st, text, <<>>, NoPath, FALSE) }
            ELSE { ValidateAndLocate(st, text, o) :
                     o \in NormalizedOptions(
                              options, st.services[st.svc_id].options.val) })

TryBlock(svc_id, text, options, ctor) ==
    With(textize(text),
         LAMBDA normalized :
            IF TextIsEmpty(normalized)
            THEN { Outcome([Registry EXCEPT
                               !.steps = <<"textize">>,
                               !.raised = Exc("ValueError", TRUE,
                                              "The input text must be set",
                                              <<>>)],
                           <<>>, <<>>, NoPath, FALSE) }
            ELSE TryService(svc_id, normalized, options, ctor))

\* what is recorded of a call: its arguments, the exception it raised to its
\* caller, the callbacks it invoked, in order, the values it computed, and
\* whether its path was on the disk and in _busy when the call was made
Record(op, req, out, raised, log, spawned, result) ==
    [op |-> op, req |-> req, raised |-> raised, log |-> log,
     existed |-> out.path \in disk, was_busy |-> out.path \in Range(busy),
     steps |-> out.steps, repeated |-> out.repeated, svc_id |-> out.svc_id,
     text |-> out.text,
     options |-> out.options, path |-> out.path, cache_hit |-> out.cache_hit,
     spawned |-> spawned, result |-> result]

NoOutcome == Outcome(Registry, <<>>, <<>>, NoPath, FALSE)

\* the except StandardError clause
Caught(exception) == exception.std

\* the outcomes of the service's constructor that the call can meet
CallCtors(request, cbs) ==
    IF ~ CallbacksAssert(cbs) \/ TextIsEmpty(textize(request.text))
    THEN {NoExc}
    ELSE Ctors(request.svc_id)

Call(request, cbs, ctor) ==
    LET svc_id == request.svc_id
        text == request.text
        options == request.options
        req == [svc_id |-> svc_id, text |-> text, options |-> options,
                callbacks |-> cbs]
    IN  /\ ctor \in CallCtors(request, cbs)
        /\ IF ~ CallbacksAssert(cbs)
           THEN /\ last' = Record("call", req, NoOutcome,
                                  Exc("AssertionError", TRUE, "callbacks", <<>>),
                                  <<>>, 0, <<>>)
                /\ UNCHANGED <<services, avail, busy, next_id, callbacks, workers,
                               signals, disk, invoked>>
           ELSE \E out \in TryBlock(svc_id, text, options, ctor) :
                /\ services' = out.services
                /\ invoked' = out.invoked
                /\ UNCHANGED <<avail, signals, disk>>
                /\ IF Raised(out.raised)
                   THEN /\ last' =
                             IF Caught(out.raised)
                             THEN Record("call", req, out, NoExc,
                                         DoneEvents(cbs, busy)
                                             \o <<Event("fail", out.raised, busy)>>,
                                         0, <<>>)
                             ELSE Record("call", req, out, out.raised, <<>>, 0, <<>>)
                        /\ UNCHANGED <<busy, next_id, callbacks, workers>>
                   ELSE IF out.cache_hit
                   THEN /\ last' = Record("call", req, out, NoExc,
                                          DoneEvents(cbs, busy)
                                              \o <<Event("okay", out.path, busy)>>,
                                          0, <<>>)
                        /\ UNCHANGED <<busy, next_id, callbacks, workers>>
                   ELSE /\ next_id < MaxWorkers
                        /\ busy' = Append(busy, out.path)
                        /\ next_id' = next_id + 1
                        /\ callbacks' = (next_id + 1 :>
                               [callbacks |-> cbs, path |-> out.path]) @@ callbacks
                        /\ workers' = (next_id + 1 :>
                               [task |-> [svc_id |-> out.svc_id, text |-> out.text,
                                          options |-> out.options,
                                          path |-> out.path],
                                pc |-> "running"]) @@ workers
                        /\ last' = Record("call", req, out, NoExc, <<>>,
                                          next_id + 1, <<>>)

(***************************************************************************)
(* _Worker.run on its own thread, with the service's run() as the task.    *)
(***************************************************************************)
\* the service's run() writes (some of) its output to the destination path
TaskWrites(id) ==
    /\ id \in DOMAIN workers
    /\ workers[id].pc = "running"
    /\ workers[id].task.path \notin disk
    /\ disk' = disk \cup {workers[id].task.path}
    /\ UNCHANGED <<services, avail, busy, next_id, callbacks, workers, signals,
                   invoked, last>>

\* what _Worker.run does when the task ends with the given exception (NoExc
\* when it returns): the signal it emits, if any
Emitted(id, exception) ==
    IF ~ Raised(exception) THEN <<[id |-> id, exception |-> NoExc]>>
    ELSE IF Caught(exception) THEN <<[id |-> id, exception |-> exception]>>
    ELSE <<>>

TaskEnds(id, exception) ==
    /\ id \in DOMAIN workers
    /\ workers[id].pc = "running"
    /\ signals' = signals \o Emitted(id, exception)
    /\ workers' = [workers EXCEPT ![id].pc =
                      IF Emitted(id, exception) = <<>> THEN "died" ELSE "emitted"]
    /\ UNCHANGED <<services, avail, busy, next_id, callbacks, disk, invoked,
                   last>>

TaskReturns(id) == TaskEnds(id, NoExc)

TaskRaises(id, exception) == TaskEnds(id, exception)

(***************************************************************************)
(* _Pool._on_signal on the controlling thread, running the callback that   *)
(* Router.__call__ passed to spawn.                                        *)
(***************************************************************************)
\* list.remove(item): the list without the first occurrence of item
RemoveFirst(list, item) ==
    LET at == CHOOSE i \in DOMAIN list :
                  list[i] = item /\ \A j \in 1..(i - 1) : list[j] # item
    IN  SubSeq(list, 1, at - 1) \o SubSeq(list, at + 1, Len(list))

\* exception and callbacks['fail'](exception) or callbacks['okay'](path),
\* where truthy says whether the value returned by 'fail' is true
Continuations(exception, path, truthy, busy_list) ==
    IF Raised(exception)
    THEN <<Event("fail", exception, busy_list)>>
             \o (IF truthy THEN <<>> ELSE <<Event("okay", path, busy_list)>>)
    ELSE <<Event("okay", path, busy_list)>>

\* a callback that removes the path once it has invoked the callbacks
Completion_NotifiesFirst(closure, exception, truthy, busy_list) ==
    [busy |-> RemoveFirst(busy_list, closure.path),
     log  |-> DoneEvents(closure.callbacks, busy_list)
              \o Continuations(exception, closure.path, truthy, busy_list)]

\* a callback that leaves the path in _busy
Completion_KeepsPath(closure, exception, truthy, busy_list) ==
    [busy |-> busy_list,
     log  |-> DoneEvents(closure.callbacks, busy_list)
              \o Continuations(exception, closure.path, truthy, busy_list)]

\* a callback that looks 'callbacks' up when it runs rather than when it is
\* made: it invokes the callbacks of the last __call__ made
Completion_LastCaller(closure, exception, truthy, busy_list) ==
    [busy |-> RemoveFirst(busy_list, closure.path),
     log  |-> DoneEvents(IF last.op = "call" THEN last.req.callbacks
                         ELSE closure.callbacks,
                         RemoveFirst(busy_list, closure.path))
              \o Continuations(exception, closure.path, truthy,
                               RemoveFirst(busy_list, closure.path))]

\* the callback given to spawn: the list it leaves in _busy and the
\* callbacks it invokes
Completion(closure, exception, truthy, busy_list) ==
    [busy |-> RemoveFirst(busy_list, closure.path),
     log  |-> DoneEvents(closure.callbacks,
                         RemoveFirst(busy_list, closure.path))
              \o Continuations(exception, closure.path, truthy,
                               RemoveFirst(busy_list, closure.path))]

Without(dict, key) == [k \in DOMAIN dict \ {key} |-> dict[k]]

OnSignal(truthy) ==
    /\ signals # <<>>
    /\ LET worker_id == Head(signals).id
           exception == Head(signals).exception
           closure == callbacks[worker_id]
           req == [id |-> worker_id, exception |-> exception,
                   callbacks |-> closure.callbacks,
                   task |-> workers[worker_id].task]
           out == Outcome(Registry, workers[worker_id].task.text,
                          workers[worker_id].task.options, closure.path, FALSE)
       IN  IF ~ InBusy(closure.path, busy)
           THEN \* list.remove raises ValueError out of the callback
                /\ last' = Record("signal", req, out,
                                  Exc("ValueError", TRUE, "not in list", <<>>),
                                  <<>>, 0, <<>>)
                /\ UNCHANGED <<busy, callbacks, workers>>
           ELSE /\ busy' = Completion(closure, exception, truthy, busy).busy
                /\ last' = Record("signal", req, out, NoExc,
                                  Completion(closure, exception, truthy, busy).log,
                                  0, <<>>)
                /\ callbacks' = Without(callbacks, worker_id)
                /\ workers' = Without(workers, worker_id)
    /\ signals' = Tail(signals)
    /\ UNCHANGED <<services, avail, next_id, disk, invoked>>

(***************************************************************************)
(* Router.get_desc, get_options, get_services, by_trait                    *)
(***************************************************************************)
\* what instance.desc() of a class returns
ClassDesc(class) ==
    IF class = "Google" THEN <<"Google Translate text-to-speech web API">>
    ELSE <<"eSpeak speech synthesizer">>

RegistryOutcome(st) == Outcome(st, <<>>, <<>>, NoPath, FALSE)

\* a get_desc that asks the instance every time
FetchDesc_Always(st) ==
    IF Raised(st.raised) THEN st
    ELSE [Invoke(st, st.svc_id, "desc") EXCEPT
             !.services[st.svc_id].desc =
                 Set(ClassDesc(lookup[st.svc_id].class))]

\* service['desc'] is set from instance.desc() unless it is set already
FetchDesc(st) ==
    IF Raised(st.raised) \/ st.services[st.svc_id].desc.set THEN st
    ELSE [Invoke(st, st.svc_id, "desc") EXCEPT
             !.services[st.svc_id].desc =
                 Set(ClassDesc(lookup[st.svc_id].class))]

get_desc(svc_id, ctor) ==
    /\ ctor \in Ctors(svc_id)
    /\ \E st \in {FetchDesc(fetch_service(Registry, svc_id, ctor))} :
          /\ services' = st.services
          /\ invoked' = st.invoked
          /\ last' = Record("get_desc", [svc_id |-> svc_id], RegistryOutcome(st),
                            st.raised, <<>>, 0,
                            IF Raised(st.raised) THEN <<>>
                            ELSE st.services[st.svc_id].desc.val)
    /\ UNCHANGED <<avail, busy, next_id, callbacks, workers, signals, disk>>

get_options(svc_id, ctor) ==
    /\ ctor \in Ctors(svc_id)
    /\ \E st \in {fetch_options(Registry, svc_id, ctor)} :
          /\ services' = st.services
          /\ invoked' = st.invoked
          /\ last' = Record("get_options", [svc_id |-> svc_id],
                            RegistryOutcome(st), st.raised, <<>>, 0,
                            IF Raised(st.raised) THEN <<>>
                            ELSE st.services[st.svc_id].options.val)
    /\ UNCHANGED <<avail, busy, next_id, callbacks, workers, signals, disk>>

\* the orders in which a dict with the given keys may be iterated
Orders(keys) ==
    { order \in [1..Cardinality(keys) -> keys] :
        \A i, j \in DOMAIN order : order[i] = order[j] => i = j }

\* for service in lookup.values(): self._load_service(service)
RECURSIVE LoadAll(_, _, _, _)
LoadAll(st, order, ctors, i) ==
    IF i > Len(order) \/ Raised(st.raised) THEN st
    ELSE LoadAll(load_service(st, order[i], ctors[order[i]]), order, ctors, i + 1)

\* the key of the sort in get_services
SortKey(item) == LowerStr(item[2])

\* sorted(items, key=...): a stable insertion of each item in turn
InsertSorted(sorted_items, item) ==
    LET after == {i \in DOMAIN sorted_items :
                     ~ StrLess(SortKey(item), SortKey(sorted_items[i]))}
        at == IF after = {} THEN 0
              ELSE CHOOSE i \in after : \A j \in after : j <= i
    IN  SubSeq(sorted_items, 1, at) \o <<item>>
            \o SubSeq(sorted_items, at + 1, Len(sorted_items))

RECURSIVE Sorted(_, _)
Sorted(items, i) ==
    IF i = 0 THEN <<>> ELSE InsertSorted(Sorted(items, i - 1), items[i])

\* the (svc_id, name) pairs of the services that have an instance
Available(st, order) ==
    LET items == [i \in DOMAIN order |-> <<order[i], lookup[order[i]].name>>]
        live == SelectSeq(items,
                          LAMBDA item : st.services[item[1]].instance = "live")
    IN  Sorted(live, Len(live))

\* 'not self._services.avail'
AvailIsFalse == avail.none \/ avail.val = <<>>

get_services(order, ctors) ==
    /\ \A svc \in SvcIds :
           services[svc].instance # "unset" \/ ~ AvailIsFalse
               => ctors[svc] = NoExc
    /\ \E st \in { IF AvailIsFalse
                    THEN LoadAll([Registry EXCEPT !.steps = <<"build">>],
                                 order, ctors, 1)
                    ELSE Registry } :
          /\ services' = st.services
          /\ invoked' = st.invoked
          /\ avail' = IF AvailIsFalse /\ ~ Raised(st.raised)
                      THEN [none |-> FALSE, val |-> Available(st, order)]
                      ELSE avail
          /\ last' = Record("get_services", <<>>, RegistryOutcome(st),
                            st.raised, <<>>, 0,
                            IF Raised(st.raised) THEN <<>> ELSE avail'.val)
    /\ UNCHANGED <<busy, next_id, callbacks, workers, signals, disk>>

\* a listing that, as get_services does, leaves out what has no instance
by_trait_LiveOnly(trait, order) ==
    /\ last' = Record("by_trait", [trait |-> trait], NoOutcome, NoExc, <<>>, 0,
                      LET names == [i \in DOMAIN order |-> lookup[order[i]].name]
                      IN  SelectSeq(names, LAMBDA name :
                              \E svc \in SvcIds :
                                  /\ lookup[svc].name = name
                                  /\ services[svc].instance = "live"
                                  /\ trait \in Range(lookup[svc].traits)))
    /\ UNCHANGED <<services, avail, busy, next_id, callbacks, workers, signals,
                   disk, invoked>>

by_trait(trait, order) ==
    /\ last' = Record("by_trait", [trait |-> trait], NoOutcome, NoExc, <<>>, 0,
                      LET names == [i \in DOMAIN order |-> lookup[order[i]].name]
                      IN  SelectSeq(names, LAMBDA name :
                              \E svc \in SvcIds :
                                  /\ lookup[svc].name = name
                                  /\ trait \in Range(lookup[svc].traits)))
    /\ UNCHANGED <<services, avail, busy, next_id, callbacks, workers, signals,
                   disk, invoked>>

(***************************************************************************)
(* Configurator._on_cache_clear: files of the cache directory are deleted. *)
(***************************************************************************)
on_cache_clear(files) ==
    /\ files # {}
    /\ disk' = disk \ files
    /\ UNCHANGED <<services, avail, busy, next_id, callbacks, workers, signals,
                   invoked, last>>

(***************************************************************************)
(* The specification.                                                      *)
(***************************************************************************)
Next ==
    \/ \E call \in Calls :
          \E ctor \in CallCtors(call[1], call[2]) : Call(call[1], call[2], ctor)
    \/ \E id \in DOMAIN workers : TaskWrites(id)
    \/ \E id \in DOMAIN workers : TaskReturns(id)
    \/ \E id \in DOMAIN workers, exception \in ServiceErrors :
          TaskRaises(id, exception)
    \/ \E truthy \in BOOLEAN : OnSignal(truthy)
    \/ \E files \in SUBSET disk : on_cache_clear(files)

Spec == Init /\ [][Next]_vars

\* the registry queried while a few calls are made
RegistryCalls ==
    { call \in Calls :
        /\ call[1].svc_id \in {<<"g">>, <<"x">>, S_espeak}
        /\ call[1].text = T_hi
        /\ call[2] = [okay |-> TRUE, fail |-> TRUE] }

NextRegistry ==
    \/ \E call \in RegistryCalls :
          \E ctor \in CallCtors(call[1], call[2]) : Call(call[1], call[2], ctor)
    \/ \E id \in DOMAIN workers : TaskReturns(id)
    \/ \E truthy \in BOOLEAN : OnSignal(truthy)
    \/ \E svc_id \in RawSvcIds :
          \E ctor \in Ctors(svc_id) : get_desc(svc_id, ctor)
    \/ \E svc_id \in RawSvcIds :
          \E ctor \in Ctors(svc_id) : get_options(svc_id, ctor)
    \/ \E order \in Orders(SvcIds), ctors \in [SvcIds -> CtorOutcomes] :
          get_services(order, ctors)
    \/ \E trait \in Traits, order \in Orders(SvcIds) : by_trait(trait, order)

SpecRegistry == Init /\ [][NextRegistry]_vars

(***************************************************************************)
(* What the last call on the controlling thread did.                       *)
(***************************************************************************)
\* how many times a log holds an invocation of the callback cb
CountIn(log, cb) == Cardinality({i \in DOMAIN log : log[i].cb = cb})

\* the log holds the invocation of 'okay' with the given path
OkayWith(log, path) ==
    \E i \in DOMAIN log : log[i].cb = "okay" /\ log[i].arg = path

\* the log holds the invocation of 'fail' with an exception of the class
FailedWith(log, cls) ==
    \E i \in DOMAIN log : log[i].cb = "fail" /\ log[i].arg.cls = cls

\* __call__ returned having reported the outcome itself
ReportedAtReturn ==
    last.op = "call" /\ ~ Raised(last.raised) /\ last.spawned = 0

\* the callback given to spawn ran to its end
Completed == last.op = "signal" /\ ~ Raised(last.raised)

\* the dispatch that the last call belongs to is over
Finished == ReportedAtReturn \/ Completed

\* a worker thread that ended without emitting its signal: the callback of
\* its dispatch is never called
Died(id) == workers[id].pc = "died"

\* the step is a call of __call__, respectively a run of the spawn callback
CallStep == last'.op = "call" /\ (last.op # "call" \/ last' # last)

SignalStep == last'.op = "signal" /\ (last.op # "signal" \/ last' # last)

\* C1: for every dispatch made with valid callbacks that is over, exactly one
\* of 'okay' and 'fail' was invoked, and it was invoked exactly once, whatever
\* the outcome and whatever 'fail' returned.
C1_ExactlyOneOfOkayAndFail ==
    Finished => CountIn(last.log, "okay") + CountIn(last.log, "fail") = 1

\* C2: while the execution of a request is in flight (its completion handler
\* has not run), a dispatch of the same (service, text, options) spawns no
\* second execution and is reported to its own 'fail' as BusyError, and no
\* two executions of one request are in flight.
C2_SingleFlight ==
    \A id \in DOMAIN callbacks :
        /\ ( /\ last.op = "call"
             /\ ~ Raised(last.raised)
             /\ last.path # NoPath
             /\ last.spawned # id
             /\ last.svc_id = workers[id].task.svc_id
             /\ last.text = workers[id].task.text
             /\ last.options = workers[id].task.options )
           => /\ last.spawned = 0
              /\ FailedWith(last.log, "BusyError")
              /\ CountIn(last.log, "okay") = 0
              /\ CountIn(last.log, "fail") = 1
        /\ \A other \in DOMAIN workers :
              workers[other].task = workers[id].task => other = id

\* a dispatch was rejected as busy while the first execution of the same
\* request, spelled differently, was running
C2_Witness ==
    /\ last.op = "call"
    /\ FailedWith(last.log, "BusyError")
    /\ last.req.svc_id = <<"G","o","o","g","l","e">>
    /\ \E id \in DOMAIN workers :
          /\ workers[id].pc = "running"
          /\ workers[id].task.path = last.path

\* C3 as stated: whenever the computed path exists on disk when __call__ is
\* made, 'okay' is invoked with that path, also while the path is in _busy;
\* BusyError is reported only when the file does not exist.
C3_ExistingPathSucceeds ==
    (last.op = "call" /\ ~ Raised(last.raised) /\ last.path # NoPath)
        => /\ last.existed => OkayWith(last.log, last.path)
           /\ FailedWith(last.log, "BusyError") => ~ last.existed

\* C3 amended: the test of _busy is made before the test of the disk.  When
\* the computed path is in _busy the dispatch fails with BusyError, whether
\* the file exists or not, and the disk is not tested; when the path is not
\* in _busy and exists on disk, 'okay' is invoked with it.  BusyError is
\* reported only when the path is in _busy.
C3_BusyTestedBeforeDisk ==
    (last.op = "call" /\ ~ Raised(last.raised) /\ last.path # NoPath)
        => /\ last.was_busy
                => /\ FailedWith(last.log, "BusyError")
                   /\ CountIn(last.log, "okay") = 0
                   /\ "exists?" \notin Range(last.steps)
           /\ (~ last.was_busy /\ last.existed)
                => /\ OkayWith(last.log, last.path)
                   /\ CountIn(last.log, "fail") = 0
           /\ FailedWith(last.log, "BusyError") => last.was_busy

\* the file was written by an execution whose completion handler has not run
\* yet, and a dispatch of the same request was rejected as busy
C3_Witness ==
    /\ last.op = "call"
    /\ last.path # NoPath
    /\ last.existed
    /\ last.was_busy
    /\ FailedWith(last.log, "BusyError")

\* C4: when a dispatch is over and 'done' was supplied, 'done' was invoked
\* exactly once and before 'okay' or 'fail'; 'okay' or 'fail' is invoked
\* whether 'done' was supplied or not; and every dispatch gets there, whatever
\* its outcome (no execution ends without its callbacks being called).
C4_DoneOnceAndFirst ==
    /\ Finished
         => /\ "done" \in DOMAIN last.req.callbacks
                 => /\ CountIn(last.log, "done") = 1
                    /\ last.log[1].cb = "done"
            /\ CountIn(last.log, "okay") + CountIn(last.log, "fail") >= 1
    /\ \A id \in DOMAIN workers : ~ Died(id)

\* C5: __call__ raises to its caller only when the callbacks dict fails one
\* of the three asserts; every other failure is passed to 'fail' and
\* __call__ returns.
C5_RaisesOnlyForCallbacks ==
    (last.op = "call" /\ Raised(last.raised))
        => ~ CallbacksAssert(last.req.callbacks)

\* C6: on a cache hit (the path exists on disk and __call__ reports 'okay')
\* no worker is spawned and _busy, the pool and the disk are left as they
\* were; and a dispatch whose path exists on disk and is not in _busy
\* reports 'okay' with that path, and nothing else but 'done', before it
\* returns.
C6_CacheHit ==
    [][ CallStep =>
          /\ (last'.existed /\ CountIn(last'.log, "okay") > 0)
                => /\ last'.spawned = 0
                   /\ UNCHANGED <<busy, next_id, callbacks, workers, signals,
                                  disk>>
          /\ (last'.path # NoPath /\ last'.existed /\ ~ last'.was_busy)
                => last'.log = DoneEvents(last'.req.callbacks, busy)
                                   \o <<Event("okay", last'.path, busy)>> ]_vars

\* a dispatch found the file that an execution of the same request wrote
C6_Witness ==
    /\ last.op = "call"
    /\ last.cache_hit
    /\ last.path # OldPath
    /\ OkayWith(last.log, last.path)
    /\ next_id > 0

\* C7: when run() raises, 'fail' receives the exception raised, the worker
\* is not run again, and the path is removed from _busy; no execution whose
\* run() raised is left without its callback.
C7_RunRaises ==
    /\ (last.op = "signal" /\ Raised(last.req.exception))
         => /\ ~ Raised(last.raised)
            /\ \E i \in DOMAIN last.log :
                  last.log[i].cb = "fail" /\ last.log[i].arg = last.req.exception
            /\ last.req.id \notin DOMAIN workers
            /\ last.req.task.path \notin Range(busy)
    /\ \A id \in DOMAIN workers : ~ Died(id)

\* C8: a valid dispatch whose path is neither on disk nor in _busy spawns
\* exactly one worker, whose task is run() with the normalized text, the
\* normalized options with the defaults filled in, and the computed path, and
\* invokes no callback before it returns; the completion handler runs only
\* once the worker has emitted its signal, and when run() returned it
\* invokes 'okay' exactly once, with that path, and never 'fail'.
C8_ColdCacheExecution ==
    [][ /\ (CallStep /\ last'.path # NoPath /\ ~ last'.existed
                /\ ~ last'.was_busy)
             => /\ last'.spawned \notin DOMAIN workers
                /\ DOMAIN workers' = DOMAIN workers \cup {last'.spawned}
                /\ workers'[last'.spawned].pc = "running"
                /\ workers'[last'.spawned].task =
                       [svc_id  |-> ResolveId(last'.req.svc_id),
                        text    |-> STRIP_ALL(last'.req.text),
                        options |-> last'.options,
                        path    |-> path_cache(ResolveId(last'.req.svc_id),
                                               STRIP_ALL(last'.req.text),
                                               last'.options)]
                /\ last'.path = workers'[last'.spawned].task.path
                /\ LET svc_options ==
                           services'[ResolveId(last'.req.svc_id)].options.val
                   IN  /\ DOMAIN last'.options =
                              {svc_options[i].key : i \in DOMAIN svc_options}
                       /\ \A i \in DOMAIN svc_options :
                              InValues(svc_options[i].values,
                                       last'.options[svc_options[i].key])
                /\ last'.log = <<>>
        /\ (SignalStep /\ ~ Raised(last'.req.exception))
             => /\ workers[last'.req.id].pc = "emitted"
                /\ last'.req.id \notin DOMAIN workers'
                /\ CountIn(last'.log, "okay") = 1
                /\ OkayWith(last'.log, last'.req.task.path)
                /\ CountIn(last'.log, "fail") = 0 ]_vars

\* run() returned for a request given as ' Hi\n' and 'okay' was invoked
C8_Witness ==
    /\ last.op = "signal"
    /\ ~ Raised(last.req.exception)
    /\ OkayWith(last.log, last.req.task.path)
    /\ last.req.task.text = T_hi
    /\ last.req.task.path \in disk

\* C9: a dispatch whose text is empty once normalized fails with the error
\* of _validate_text and does nothing else: no service is looked up or
\* constructed, no options are built, the disk is not tested and _busy is as
\* it was, whatever the service ID and the options passed.
C9_EmptyText ==
    [][ (CallStep /\ CallbacksAssert(last'.req.callbacks)
             /\ STRIP_ALL(last'.req.text) = <<>>)
          => /\ ~ Raised(last'.raised)
             /\ CountIn(last'.log, "fail") = 1
             /\ CountIn(last'.log, "okay") = 0
             /\ \E i \in DOMAIN last'.log :
                   /\ last'.log[i].cb = "fail"
                   /\ last'.log[i].arg.cls = "ValueError"
                   /\ last'.log[i].arg.what = "The input text must be set"
             /\ last'.steps = <<"textize">>
             /\ last'.spawned = 0
             /\ UNCHANGED <<services, invoked, avail, busy, next_id, callbacks,
                            workers, signals, disk>> ]_vars

\* the text '[sound:x] ' was dispatched to a service that does not exist
C9_Witness ==
    /\ last.op = "call"
    /\ last.req.text # <<>>
    /\ last.req.svc_id = <<"x">>
    /\ last.steps = <<"textize">>
    /\ FailedWith(last.log, "ValueError")

\* the exception class that the last call reported: to 'fail' when it is
\* __call__, to its caller otherwise
ReportedClass ==
    IF last.op = "call" /\ ~ Raised(last.raised)
    THEN IF CountIn(last.log, "fail") = 1
         THEN last.log[CHOOSE i \in DOMAIN last.log : last.log[i].cb = "fail"]
                  .arg.cls
         ELSE "None"
    ELSE last.raised.cls

\* C10: a service ID that is in neither the aliases nor the lookup once
\* normalized is reported as the 'no such service' ValueError; a registered
\* service whose construction failed is reported as the EnvironmentError by
\* every __call__, get_desc and get_options that names it; and in both cases
\* no options are built or validated, no path is computed and nothing is run.
C10_UnknownOrUnavailable ==
    (last.op \in {"call", "get_desc", "get_options"}
         /\ "lookup" \in Range(last.steps))
        => /\ last.svc_id \notin DOMAIN lookup
                => /\ ReportedClass = "ValueError"
                   /\ last.steps[Len(last.steps)] = "lookup"
                   /\ last.spawned = 0
           /\ (last.svc_id \in DOMAIN lookup
                   /\ services[last.svc_id].instance # "live")
                => /\ ReportedClass = "EnvironmentError"
                   /\ Range(last.steps) \subseteq {"textize", "lookup", "ctor"}
                   /\ last.spawned = 0

(***************************************************************************)
(* Router.__call__ called with many option dicts for one service whose     *)
(* constructor succeeds, on an empty cache and before any worker has ended.*)
(***************************************************************************)
\* a dict with no key
NoOption == [key \in {} |-> Str(<<>>)]

\* the 'voice' passed, if any: as declared, to be transformed, and not listed
VoicePassed ==
    { NoOption,
      K_voice :> Str(V_en),
      K_voice :> Str(<<" ","E","N">>),
      <<"V","o","i","c","e">> :> Str(V_fr),
      K_voice :> Str(<<"x">>) }

\* the 'speed' passed, if any: strings and numbers at both ends of the range
\* and next to them, and a string that int() does not take
SpeedPassed ==
    {NoOption}
        \cup { K_speed :> Str(digits) :
                 digits \in { <<"1">>, <<"1","0">>, <<"a">> } }
        \cup { K_speed :> Int_(n) : n \in {0, 9} }

\* a key that the service does not declare
JunkPassed == { NoOption, <<"j","u","n","k">> :> Str(<<"1">>) }

OptionRequests ==
    { [svc_id |-> S_google, text |-> T_hi, options |-> voice @@ speed @@ junk] :
        voice \in VoicePassed, speed \in SpeedPassed, junk \in JunkPassed }

InitOptions == Init /\ disk = {}

NextOptions ==
    \E request \in OptionRequests :
        Call(request, [okay |-> TRUE, fail |-> TRUE], NoExc)

SpecOptions == InitOptions /\ [][NextOptions]_vars

(***************************************************************************)
(* What a call made of the options it was passed.                          *)
(***************************************************************************)
\* the values passed under the keys that normalize to the declared key
PassedFor(options, key) ==
    {options[k] : k \in {k \in DOMAIN options : TO_NORMALIZED(k) = key}}

\* the value passed for the declared option is not one the service takes
Rejected(svc_option, value) ==
    \/ ~ Transform(svc_option.transform, value).ok
    \/ ~ InValues(svc_option.values,
                  Transform(svc_option.transform, value).value)

\* the declared option is passed with a value the service does not take, or
\* is not passed and has no default
IsProblem(options, svc_option) ==
    IF PassedFor(options, svc_option.key) = {}
    THEN "default" \notin DOMAIN svc_option
    ELSE \E value \in PassedFor(options, svc_option.key) :
            Rejected(svc_option, value)

\* the last call was a __call__ that got to _validate_options
Validated == last.op = "call" /\ "validate_options" \in Range(last.steps)

\* the options list of the service that the last call named
LastSchema == services[last.svc_id].options.val

\* the problems that the last call passed to 'fail'
LastProblems ==
    IF FailedWith(last.log, "ValueError")
    THEN last.log[CHOOSE i \in DOMAIN last.log : last.log[i].cb = "fail"]
             .arg.args
    ELSE <<>>

\* C11: the ValueError passed to 'fail' lists one problem for every declared
\* option that is passed with a value the service does not take or that is
\* required and not passed, in the order of the declaration and whatever
\* their number; a required option that is not passed is listed by its key
\* as required; and no worker is spawned.
C11_EveryProblemListed ==
    Validated =>
        LET keys == [i \in DOMAIN LastSchema |-> LastSchema[i].key]
            bad == SelectSeq(keys, LAMBDA key :
                       \E i \in DOMAIN LastSchema :
                           /\ LastSchema[i].key = key
                           /\ IsProblem(last.req.options, LastSchema[i]))
        IN  /\ [i \in DOMAIN LastProblems |-> LastProblems[i].key] = bad
            /\ \A i \in DOMAIN LastProblems :
                  PassedFor(last.req.options, LastProblems[i].key) = {}
                      <=> LastProblems[i].kind = "required"
            /\ bad # <<>>
                 => /\ FailedWith(last.log, "ValueError")
                    /\ CountIn(last.log, "fail") = 1
                    /\ CountIn(last.log, "okay") = 0
                    /\ last.spawned = 0

\* 'voice' was not passed and 'speed' was passed as 'a': both are listed
C11_Witness ==
    /\ Validated
    /\ Len(LastProblems) = 2
    /\ LastProblems[1].kind = "required"
    /\ LastProblems[1].key = K_voice
    /\ LastProblems[2].kind = "invalid"
    /\ LastProblems[2].key = K_speed

\* the last call was a __call__ that spawned a worker, which has not been
\* cleaned up
Spawned == last.op = "call" /\ last.spawned \in DOMAIN workers

\* the options that the task of the worker passes to run()
RunOptions == workers[last.spawned].task.options

\* C12: in the options passed to run(), and in the ones the path is computed
\* from, every declared option that has a default and is not passed holds
\* that default, and every declared option that is passed holds the value
\* passed, transformed, whatever its default.
C12_Defaults ==
    Spawned =>
        /\ \A i \in DOMAIN LastSchema :
              LET key == LastSchema[i].key
              IN  IF PassedFor(last.req.options, key) = {}
                  THEN "default" \in DOMAIN LastSchema[i]
                          => /\ key \in DOMAIN RunOptions
                             /\ RunOptions[key] = LastSchema[i].default
                  ELSE /\ key \in DOMAIN RunOptions
                       /\ RunOptions[key] \in
                              { Transform(LastSchema[i].transform, value).value :
                                  value \in PassedFor(last.req.options, key) }
        /\ workers[last.spawned].task.path =
               path_cache(last.svc_id, last.text, RunOptions)

\* 'speed' was not passed, and run() is passed the default, 5
C12_Witness ==
    /\ Spawned
    /\ PassedFor(last.req.options, K_speed) = {}
    /\ RunOptions[K_speed] = Int_(5)

\* the value lies in the declared values: between the two ends of a range,
\* ends included, or among the values of the listed pairs
InDomain(values, value) ==
    IF values.type = "tuple"
    THEN values.items[1] <= value.v /\ value.v <= values.items[2]
    ELSE value \in {values.items[i][1] : i \in DOMAIN values.items}

\* the keys of the problems that the last call passed to 'fail'
LastProblemKeys == {LastProblems[i].key : i \in DOMAIN LastProblems}

\* C13: an option that is passed is accepted exactly when its transform
\* returns a value and that value lies in the declared values, both ends of
\* a range included.  An accepted value is stored as transformed, and is the
\* one passed to run(); a value that is not accepted is listed as a problem
\* (with the listed values when the declared values are a list), and no
\* worker is spawned.
C13_AcceptedIffInDomain ==
    Validated =>
        \A i \in DOMAIN LastSchema :
            \A value \in PassedFor(last.req.options, LastSchema[i].key) :
                LET key == LastSchema[i].key
                    tr == Transform(LastSchema[i].transform, value)
                IN  IF tr.ok /\ InDomain(LastSchema[i].values, tr.value)
                    THEN /\ key \notin LastProblemKeys
                         /\ LastProblems = <<>>
                              => /\ last.options[key] = tr.value
                                 /\ Spawned => RunOptions[key] = tr.value
                    ELSE /\ last.spawned = 0
                         /\ CountIn(last.log, "okay") = 0
                         /\ \E p \in DOMAIN LastProblems :
                               /\ LastProblems[p].key = key
                               /\ LastProblems[p].value = value
                               /\ LastProblems[p].kind =
                                      IF tr.ok /\ LastSchema[i].values.type = "list"
                                      THEN "not an option"
                                      ELSE "invalid"
                               /\ LastProblems[p].kind = "not an option"
                                    => LastProblems[p].detail =
                                           [j \in DOMAIN LastSchema[i].values.items
                                               |-> LastSchema[i].values.items[j][1]]

\* the number 9, the upper end of the range of 'speed', was passed to run()
C13_Witness ==
    /\ Spawned
    /\ PassedFor(last.req.options, K_speed) = {Int_(9)}
    /\ RunOptions[K_speed] = Int_(9)

\* the string '10', next to the upper end of the range, was not accepted
C13_WitnessRejected ==
    /\ Validated
    /\ PassedFor(last.req.options, K_speed) = {Str(<<"1","0">>)}
    /\ K_speed \in LastProblemKeys

\* the keys that the service of the last call declares
LastSchemaKeys == {LastSchema[i].key : i \in DOMAIN LastSchema}

\* the keys passed to the last call that the service does not declare
LastUnknownKeys ==
    {k \in DOMAIN last.req.options : TO_NORMALIZED(k) \notin LastSchemaKeys}

\* what the last call was passed under the keys that the service declares
LastKnown ==
    [k \in DOMAIN last.req.options \ LastUnknownKeys |-> last.req.options[k]]

\* C14: a key that is passed and that the service does not declare is named
\* by no problem and is not a key of the options passed to run(), which are
\* exactly the declared ones; and two calls in a row that differ only in
\* such keys list the same problems and get to the same options and the
\* same path.
C14_UnknownKeysDropped ==
    [][ /\ Validated'
          => /\ \A k \in LastUnknownKeys' :
                   /\ {k, TO_NORMALIZED(k)} \cap LastProblemKeys' = {}
                   /\ Spawned' => {k, TO_NORMALIZED(k)} \cap DOMAIN RunOptions' = {}
             /\ Spawned' => DOMAIN RunOptions' = LastSchemaKeys'
        /\ ( /\ Validated /\ Validated'
             /\ last.req.svc_id = last'.req.svc_id
             /\ last.req.text = last'.req.text
             /\ LastKnown = LastKnown' )
          => /\ LastProblems' = LastProblems
             /\ last'.options = last.options
             /\ last'.path = last.path
      ]_vars

\* a call that was passed a key that is not declared spawned a worker
C14_Witness == Spawned /\ LastUnknownKeys # {}

\* a call that was passed a key that is not declared found the path of an
\* earlier call in flight
C14_WitnessSamePath ==
    /\ Validated /\ LastUnknownKeys # {}
    /\ last.raised.cls = "BusyError" \/ FailedWith(last.log, "BusyError")

(***************************************************************************)
(* _path_cache on its own: the dict of options is given as its items in    *)
(* the order in which the dict happens to iterate, and the texts and the   *)
(* values hold the characters that the joins use as separators.            *)
(***************************************************************************)
\* the place of an item among sorted ones: (key, value) < (key, value) is
\* decided by the keys, which differ for the items of a dict
RECURSIVE InsertItem(_, _)
InsertItem(item, items) ==
    IF items = <<>> THEN <<item>>
    ELSE IF StrLess(item[1], Head(items)[1]) THEN <<item>> \o items
    ELSE <<Head(items)>> \o InsertItem(item, Tail(items))

\* the items as they are iterated, without sorting them
sorted_items_AsGiven(items) == items

\* sorted(options.items())
RECURSIVE sorted_items(_)
sorted_items(items) ==
    IF items = <<>> THEN <<>>
    ELSE InsertItem(items[Len(items)],
                    sorted_items(SubSeq(items, 1, Len(items) - 1)))

\* the hash input from the items of the dict in their order of iteration
HashInputOfItems(svc_id, text, items) ==
    With(sorted_items(items), LAMBDA pairs :
        Join(<<"/">>,
             << text,
                svc_id,
                Join(<<";">>,
                     [i \in DOMAIN pairs |->
                         Join(<<"=">>, <<pairs[i][1], PyStr(pairs[i][2])>>)])
             >>))

\* the keys of the dicts passed and the values passed under each
PathValues ==
    (<<"a">> :> {Str(<<"1">>), Str(<<"1",";","b","=","2">>)})
        @@ (<<"b">> :> {Str(<<"3">>), Str(<<"2",";","b","=","3">>)})
        @@ (<<"n">> :> {Int_(5)})

PathOptions ==
    UNION { {options \in [keys -> UNION {PathValues[k] : k \in keys}] :
                \A k \in keys : options[k] \in PathValues[k]} :
            keys \in SUBSET DOMAIN PathValues }

PathTexts == {T_hi, <<"a","/","b">>}

\* the items of a dict in every order in which it may iterate
ItemOrders(options) ==
    { [i \in DOMAIN order |-> <<order[i], options[order[i]]>>] :
        order \in Orders(DOMAIN options) }

\* a call of _path_cache, recorded with what it was passed and returned
PathCache(svc_id, text, options, items) ==
    /\ last' = [op |-> "path_cache", req |-> items, raised |-> NoExc,
                log |-> <<>>, existed |-> FALSE, was_busy |-> FALSE,
                steps |-> <<>>, repeated |-> <<>>, svc_id |-> svc_id,
                text |-> text, options |-> options,
                path |-> [svc |-> svc_id,
                          digest |-> HashInputOfItems(svc_id, text, items),
                          ext |-> "mp3"],
                cache_hit |-> FALSE, spawned |-> 0, result |-> <<>>]
    /\ UNCHANGED <<services, avail, busy, next_id, callbacks, workers,
                   signals, disk, invoked>>

\* the calls of __call__ made in between, which change the router
PathCalls ==
    { request \in Requests :
        request.svc_id \in {<<"G","o","o","g","l","e">>, S_espeak} }

NextPath ==
    \/ \E svc_id \in SvcIds, text \in PathTexts, options \in PathOptions :
          \E items \in ItemOrders(options) :
              PathCache(svc_id, text, options, items)
    \/ \E request \in PathCalls :
          Call(request, [okay |-> TRUE, fail |-> TRUE], NoExc)

SpecPath == Init /\ [][NextPath]_vars

\* C15: whatever the order in which the dict of options iterates, whatever
\* the calls made before and whatever is in flight, loaded or on disk, the
\* path that _path_cache returns is the one function of the service ID, the
\* text and the options as a mapping.
C15_PathIsAFunction ==
    last.op = "path_cache"
        => last.path = path_cache(last.svc_id, last.text, last.options)

\* a path was returned for a dict that does not iterate in the order of its
\* keys, while the path of an earlier call is in flight
C15_Witness ==
    /\ last.op = "path_cache"
    /\ Len(last.req) = 3
    /\ last.req # sorted_items(last.req)
    /\ busy # <<>>

\* C16: two calls of _path_cache in a row that differ in the service ID, in
\* the text or in the options return different paths.
C16_NoCollision ==
    [][ ( /\ last.op = "path_cache" /\ last'.op = "path_cache"
          /\ \/ last.svc_id # last'.svc_id
             \/ last.text # last'.text
             \/ last.options # last'.options )
          => last'.path # last.path ]_vars

(***************************************************************************)
(* The lifecycle of the services in the registry.                          *)
(***************************************************************************)
\* the last call invoked the constructor of a service that an earlier call
\* had invoked already
CtorRepeated ==
    \E i \in DOMAIN last.repeated : last.repeated[i][2] = "ctor"

\* C17: no constructor is invoked a second time; a service that has an
\* instance keeps it and a service marked as unavailable stays so, over
\* every __call__, get_services, get_desc and get_options.
C17_LifecycleTerminal ==
    [][ /\ ~ CtorRepeated'
        /\ \A svc \in SvcIds :
              services[svc].instance # "unset"
                  => services'[svc].instance = services[svc].instance ]_vars

\* C18: a constructor that was invoked left its service with an instance or
\* marked as unavailable, and is not invoked again; no call raises what a
\* constructor raised; get_services does not raise, leaves every service
\* loaded and lists the ones with an instance; and a __call__ that names a
\* service marked as unavailable passes the EnvironmentError to 'fail'.
C18_InitFailureContained ==
    /\ \A svc \in SvcIds :
          invoked[svc].ctor => services[svc].instance \in {"live", "None"}
    /\ ~ CtorRepeated
    /\ last.raised \notin ServiceErrors
    /\ last.op = "get_services"
          => /\ ~ Raised(last.raised)
             /\ \A svc \in SvcIds : services[svc].instance # "unset"
             /\ Range(last.result) =
                    { <<svc, lookup[svc].name>> :
                        svc \in {id \in SvcIds : services[id].instance = "live"} }
    /\ ( /\ last.op = "call" /\ "lookup" \in Range(last.steps)
         /\ last.svc_id \in DOMAIN lookup
         /\ services[last.svc_id].instance = "None" )
          => /\ ~ Raised(last.raised)
             /\ FailedWith(last.log, "EnvironmentError")
             /\ CountIn(last.log, "okay") = 0

\* C19: get_services returns each (svc_id, name) of the services that have
\* an instance once, none else, the lower-cased names ascending; when it
\* returns every service is loaded; and once a list is stored, an empty one
\* too, a call returns that list and invokes no constructor.
C19_ExactSortedMemoized ==
    [][ last'.op = "get_services"
          => /\ ~ Raised(last'.raised)
             /\ \A svc \in SvcIds : services'[svc].instance # "unset"
             /\ Range(last'.result) =
                    { <<svc, lookup[svc].name>> :
                        svc \in {id \in SvcIds : services'[id].instance = "live"} }
             /\ \A i, j \in DOMAIN last'.result :
                    i < j => StrLess(LowerStr(last'.result[i][2]),
                                     LowerStr(last'.result[j][2]))
             /\ ~ avail.none
                  => /\ last'.result = avail.val
                     /\ invoked' = invoked
                     /\ services' = services ]_vars

\* C20: by_trait returns, once each, the names of the registered services
\* whose traits hold the trait, whether or not they are loaded or available,
\* and leaves the registry as it was.
C20_ByTraitStatic ==
    [][ last'.op = "by_trait"
          => /\ Range(last'.result) =
                    { lookup[svc].name :
                        svc \in {id \in SvcIds :
                                    last'.req.trait \in Range(lookup[id].traits)} }
             /\ \A i, j \in DOMAIN last'.result :
                    last'.result[i] = last'.result[j] => i = j
             /\ services' = services
             /\ invoked' = invoked
             /\ avail' = avail ]_vars

\* by_trait named a service that has no instance yet, and one that is
\* marked as unavailable
C20_Witness ==
    /\ last.op = "by_trait" /\ last.result # <<>>
    /\ \E svc \in SvcIds :
          /\ lookup[svc].name \in Range(last.result)
          /\ services[svc].instance = "unset"

C20_WitnessUnavailable ==
    /\ last.op = "by_trait" /\ last.result # <<>>
    /\ \E svc \in SvcIds :
          /\ lookup[svc].name \in Range(last.result)
          /\ services[svc].instance = "None"

(***************************************************************************)
(* The options lists that _fetch_options builds.                           *)
(***************************************************************************)
\* what instance.options() of the service returns
Declared(svc) == ClassOptions(lookup[svc].class)

\* the descriptor has the four fields
HasFields(option) ==
    {"key", "label", "values", "transform"} \subseteq DOMAIN option

\* the descriptor has the four fields, and its values are a list of two
\* items or more or a range
WellFormed(option) ==
    /\ HasFields(option)
    /\ \/ option.values.type = "list" /\ Len(option.values.items) >= 2
       \/ option.values.type = "tuple" /\ Len(option.values.items) \in 2..3

\* the descriptor has the four fields and a normalized key, and its values
\* are a list, of any length, or a tuple of two or three items
Asserted(option) ==
    /\ HasFields(option)
    /\ TO_NORMALIZED(option.key) = option.key
    /\ \/ option.values.type = "list"
       \/ option.values.type = "tuple" /\ Len(option.values.items) \in 2..3

\* the last call built the options list of the service it named
BuiltOptions ==
    /\ last.op \in {"call", "get_options"}
    /\ "options" \in Range(last.steps)

\* the last call got the options list of the service it named
GotOptions ==
    \/ last.op = "get_options" /\ ~ Raised(last.raised)
    \/ Validated

\* C21 as stated: a call that builds the options list of a service that
\* declares a descriptor without one of the four fields, or with values that
\* are neither a list of two items or more nor a range, reports the
\* AssertionError; and no such descriptor is in a list that get_options
\* returns or that a __call__ validates against.
C21_IllFormedRejected ==
    /\ BuiltOptions
          => ( (\E i \in DOMAIN Declared(last.svc_id) :
                    ~ WellFormed(Declared(last.svc_id)[i]))
                  => ReportedClass = "AssertionError" )
    /\ GotOptions
          => \A i \in DOMAIN LastSchema : WellFormed(LastSchema[i])

\* C21 as the code has it: the descriptors rejected are those without one of
\* the four fields, with a key that is not normalized, or with values that
\* are neither a list, of any length, nor a tuple of two or three items.  A
\* call that builds the options list of a service that declares one reports
\* the AssertionError, and no such descriptor is in a list that get_options
\* returns or that a __call__ validates against; a list of one item is
\* taken.
C21_AssertedOnly ==
    /\ BuiltOptions
          => ( (\E i \in DOMAIN Declared(last.svc_id) :
                    ~ Asserted(Declared(last.svc_id)[i]))
                  <=> ReportedClass = "AssertionError" )
    /\ \A svc \in SvcIds :
          services[svc].options.set
              => \A i \in DOMAIN services[svc].options.val :
                    /\ Asserted(services[svc].options.val[i])
                    /\ i \in DOMAIN Declared(svc)
                    /\ services[svc].options.val[i].key = Declared(svc)[i].key
    /\ GotOptions
          => \A i \in DOMAIN LastSchema : Asserted(LastSchema[i])

\* a call that built the options list of a service that declares a
\* descriptor with no label reported the AssertionError
C21_Witness ==
    /\ BuiltOptions
    /\ \E i \in DOMAIN Declared(last.svc_id) :
          ~ HasFields(Declared(last.svc_id)[i])
    /\ ReportedClass = "AssertionError"

\* get_options returned a list that holds a descriptor whose values are a
\* list of one item
C21_WitnessOneItem ==
    /\ last.op = "get_options" /\ ~ Raised(last.raised)
    /\ \E i \in DOMAIN last.result :
          /\ last.result[i].values.type = "list"
          /\ Len(last.result[i].values.items) = 1

\* the last call invoked again a desc() or an options() that an earlier call
\* had invoked
MethodRepeated ==
    \E i \in DOMAIN last.repeated : last.repeated[i][2] \in {"desc", "options"}

\* C22: desc() and options() of a service are invoked once at most; they are
\* invoked only by a get_desc, respectively a get_options or a __call__, that
\* names the service; what is stored for a service is never replaced; and
\* every get_desc and get_options that returns, returns what is stored,
\* which is what was stored before the call when something was.
C22_LazyMemoized ==
    [][ /\ ~ MethodRepeated'
        /\ \A svc \in SvcIds :
              /\ services[svc].desc.set
                    => services'[svc].desc = services[svc].desc
              /\ services[svc].options.set
                    => services'[svc].options = services[svc].options
              /\ (invoked'[svc].desc /\ ~ invoked[svc].desc)
                    => last'.op = "get_desc" /\ last'.svc_id = svc
              /\ (invoked'[svc].options /\ ~ invoked[svc].options)
                    => last'.op \in {"get_options", "call"} /\ last'.svc_id = svc
              /\ invoked'[svc].desc = services'[svc].desc.set
              /\ invoked'[svc].options = services'[svc].options.set
        /\ (last'.op = "get_desc" /\ ~ Raised(last'.raised))
              => last'.result = services'[last'.svc_id].desc.val
        /\ (last'.op = "get_options" /\ ~ Raised(last'.raised))
              => last'.result = services'[last'.svc_id].options.val
      ]_vars

\* a get_desc returned the description of a service without invoking desc(),
\* which an earlier call had invoked
C22_Witness ==
    /\ last.op = "get_desc" /\ ~ Raised(last.raised)
    /\ "desc" \notin Range(last.steps)
    /\ invoked[last.svc_id].desc
    /\ last.result = ClassDesc(lookup[last.svc_id].class)

(***************************************************************************)
(* The IDs that calls name their service by.                               *)
(***************************************************************************)
\* the official ID behind each ID that the calls pass
OfficialId(svc_id) ==
    IF svc_id \in {<<"g">>, <<"G","o","o","g","l","e">>, S_google} THEN S_google
    ELSE svc_id

\* the last call got as far as computing its path
Located == last.op = "call" /\ "path_cache" \in Range(last.steps)

\* C23: a __call__ looks its service up by the official ID behind the ID it
\* was passed, an alias or another spelling; the path it computes is the one
\* of the official ID, the text and the options, with the official ID in
\* its file name, and the worker it spawns is given the official ID.  Two
\* calls that name one service by whatever IDs, with the same text and
\* options once normalized, compute one path: the second is refused as busy
\* while the path of the first is in flight, and is a cache hit when the
\* file of the first is on the disk and not in flight.
C23_AliasTransparent ==
    [][ /\ (last'.op = "call" /\ "lookup" \in Range(last'.steps))
              => last'.svc_id = OfficialId(last'.req.svc_id)
        /\ Located'
              => /\ last'.path.svc = OfficialId(last'.req.svc_id)
                 /\ last'.path = path_cache(OfficialId(last'.req.svc_id),
                                            last'.text, last'.options)
                 /\ services'[OfficialId(last'.req.svc_id)].instance = "live"
                 /\ Spawned'
                      => workers'[last'.spawned].task.svc_id =
                             OfficialId(last'.req.svc_id)
        /\ ( /\ Located /\ Located' /\ last' # last
             /\ OfficialId(last.req.svc_id) = OfficialId(last'.req.svc_id)
             /\ last.text = last'.text
             /\ last.options = last'.options )
              => /\ last'.path = last.path
                 /\ last.path \in Range(busy)
                      => /\ FailedWith(last'.log, "BusyError")
                         /\ last'.spawned = 0
                 /\ (last.path \notin Range(busy) /\ last.path \in disk)
                      => last'.cache_hit
      ]_vars

\* a call that named the service by its alias was refused as busy
C23_Witness ==
    /\ Located
    /\ last.req.svc_id = <<"g">>
    /\ last.svc_id = S_google
    /\ FailedWith(last.log, "BusyError")

(***************************************************************************)
(* The pool of worker threads.                                             *)
(***************************************************************************)
\* how many signals of the worker are waiting for the controlling thread
Pending(id) == Cardinality({i \in DOMAIN signals : signals[i].id = id})

\* C24: a task that has ended, by returning or by raising whatever it
\* raised, emitted one signal, which carries what it raised; the callback
\* given to spawn is run for a signal once, with what the signal carries,
\* and is then dropped; and no callback is left whose task has ended
\* without a signal.
C24_ErrorsCaptured ==
    /\ \A id \in DOMAIN workers :
          /\ ~ Died(id)
          /\ workers[id].pc = "running" => Pending(id) = 0
          /\ workers[id].pc = "emitted" => Pending(id) = 1
    /\ \A i \in DOMAIN signals : signals[i].id \in DOMAIN callbacks
    /\ DOMAIN callbacks = DOMAIN workers
    /\ (last.op = "signal" /\ ~ Raised(last.raised))
          => /\ last.req.id \notin DOMAIN callbacks
             /\ Raised(last.req.exception) => FailedWith(last.log, last.req.exception.cls)
             /\ ~ Raised(last.req.exception) => CountIn(last.log, "fail") = 0

\* C25: whether a __call__ that gets to the test of the disk is a cache hit
\* is decided by the files that are on the disk when it is made, whatever
\* earlier calls found or wrote: when the file of its path is not there, as
\* after it was deleted, the call is a miss, invokes no callback and spawns
\* a worker that runs for that path.
C25_ExistenceRechecked ==
    [][ (CallStep /\ Located' /\ ~ FailedWith(last'.log, "BusyError"))
          => /\ last'.cache_hit <=> last'.path \in disk
             /\ last'.path \notin disk
                  => /\ Spawned'
                     /\ last'.spawned \notin DOMAIN workers
                     /\ workers'[last'.spawned].task.path = last'.path
                     /\ last'.log = <<>>
             /\ last'.path \in disk
                  => /\ last'.spawned = 0
                     /\ OkayWith(last'.log, last'.path)
      ]_vars

\* a second worker was spawned, for the path whose file was on the disk at
\* the start or was written by the first worker, with no file on the disk
C25_Witness ==
    /\ Spawned
    /\ last.spawned = 2
    /\ DOMAIN workers = {2}
    /\ last.path = OldPath
    /\ disk = {}

(***************************************************************************)
(* The executions in flight and the list of the paths that are busy.       *)
(***************************************************************************)
\* the workers spawned for the path whose callback has not run
InFlight(path) == {id \in DOMAIN workers : workers[id].task.path = path}

\* the paths for which a worker was spawned whose callback has not run
PathsInFlight == {workers[id].task.path : id \in DOMAIN workers}

\* C26: in every state, whatever the order in which calls are made, tasks
\* run and end and callbacks are run, no two workers whose callback has not
\* run were spawned for one path.
C26_OnePerPath ==
    \A path \in PathsInFlight : Cardinality(InFlight(path)) = 1

\* two workers are in flight, for two paths, and a call for one of the two
\* paths was refused
C26_Witness ==
    /\ Cardinality(PathsInFlight) = 2
    /\ Located /\ last.spawned = 0
    /\ last.path \in PathsInFlight
    /\ FailedWith(last.log, "BusyError")

\* C27: in every state the paths in _busy are the paths of the workers
\* spawned whose callback has not run, each of them once; and _busy is
\* changed only by a __call__ that spawns a worker, which appends its path,
\* and by the callback of a worker, which removes the path of that worker.
C27_BusyIsInFlight ==
    [][ /\ Range(busy') = {workers'[id].task.path : id \in DOMAIN workers'}
        /\ \A i, j \in DOMAIN busy' : busy'[i] = busy'[j] => i = j
        /\ busy' # busy
              => \/ /\ last'.op = "call" /\ last'.spawned \in DOMAIN workers'
                    /\ last'.spawned \notin DOMAIN workers
                    /\ busy' = Append(busy, last'.path)
                 \/ /\ last'.op = "signal"
                    /\ last'.req.id \in DOMAIN workers
                    /\ last'.req.id \notin DOMAIN workers'
                    /\ Len(busy') = Len(busy) - 1
                    /\ Range(busy') = Range(busy) \ {last'.req.task.path}
      ]_vars

\* the callback of a worker removed its path from _busy and left the path of
\* another worker there
C27_Witness ==
    /\ last.op = "signal" /\ ~ Raised(last.raised)
    /\ last.req.task.path \notin Range(busy)
    /\ Len(busy) = 1
    /\ \E id \in DOMAIN workers : busy[1] = workers[id].task.path

(***************************************************************************)
(* Router.__call__ in two steps, the test of _busy and the append to it,   *)
(* with the worker threads running in between.  The controlling thread     *)
(* runs one thing at a time: a signal emitted by a worker thread is queued *)
(* for the thread of the pool, and _on_signal runs once __call__ returned. *)
(***************************************************************************)
\* the controlling thread is inside a __call__ that found its path neither
\* in _busy nor on the disk
Observed == last.op = "observed"

\* __call__ up to the test of cache_hit, for a miss
CallObserves(request) ==
    /\ ~ Observed
    /\ next_id < MaxWorkers
    /\ \E out \in TryBlock(request.svc_id, request.text, request.options, NoExc) :
          /\ ~ Raised(out.raised)
          /\ ~ out.cache_hit
          /\ services' = out.services
          /\ invoked' = out.invoked
          /\ last' = Record("observed",
                            [svc_id |-> request.svc_id, text |-> request.text,
                             options |-> request.options,
                             callbacks |-> [okay |-> TRUE, fail |-> TRUE]],
                            out, NoExc, <<>>, 0, <<>>)
    /\ UNCHANGED <<avail, busy, next_id, callbacks, workers, signals, disk>>

\* the else branch of __call__: self._busy.append(path), self._pool.spawn(...)
CallInserts ==
    /\ Observed
    /\ busy' = Append(busy, last.path)
    /\ next_id' = next_id + 1
    /\ callbacks' = (next_id + 1 :>
           [callbacks |-> last.req.callbacks, path |-> last.path]) @@ callbacks
    /\ workers' = (next_id + 1 :>
           [task |-> [svc_id |-> last.svc_id, text |-> last.text,
                      options |-> last.options, path |-> last.path],
            pc |-> "running"]) @@ workers
    /\ last' = [last EXCEPT !.op = "call", !.spawned = next_id + 1]
    /\ UNCHANGED <<services, avail, signals, disk, invoked>>

\* a __call__ that returns without spawning
CallReturns(request) ==
    /\ ~ Observed
    /\ Call(request, [okay |-> TRUE, fail |-> TRUE], NoExc)
    /\ last'.spawned = 0

\* a slot that runs on the thread that emits
OnSignalDirect(truthy) == OnSignal(truthy)

\* _on_signal, run by the thread of the pool when it is back in its event loop
OnSignalQueued(truthy) == ~ Observed /\ OnSignal(truthy)

NextAtomic ==
    \/ \E request \in PathCalls : CallObserves(request)
    \/ CallInserts
    \/ \E request \in PathCalls : CallReturns(request)
    \/ \E id \in DOMAIN workers : TaskWrites(id)
    \/ \E id \in DOMAIN workers : TaskReturns(id)
    \/ \E truthy \in BOOLEAN : OnSignalQueued(truthy)

SpecAtomic == Init /\ [][NextAtomic]_vars

\* C28: from the test that finds the path of a __call__ not in _busy to the
\* append of that path, _busy is not changed, by no callback of a worker and
\* by no other __call__, while worker threads write, end and emit; _busy is
\* changed only by steps of the controlling thread, the append of a __call__
\* and the callback of a worker run from the queue; and no path is in _busy
\* twice.
C28_TestAndAppendAtomic ==
    [][ /\ Observed
              => /\ last.path \notin Range(busy)
                 /\ busy' # busy
                      => /\ last'.op = "call"
                         /\ busy' = Append(busy, last.path)
                 /\ last'.op \in {"observed", "call"} /\ last'.req = last.req
        /\ busy' # busy
              => \/ Observed /\ last'.op = "call"
                 \/ /\ ~ Observed /\ last'.op = "signal"
                    /\ last'.req.id \notin DOMAIN workers'
        /\ \A i, j \in DOMAIN busy' : busy'[i] = busy'[j] => i = j
      ]_vars

\* a worker has emitted its signal while the controlling thread is between
\* the test and the append of a __call__
C28_Witness ==
    /\ Observed
    /\ signals # <<>>
    /\ busy # <<>>

(***************************************************************************)
(* Executions to their end: every run() that was started ends, by          *)
(* returning or by raising, and the controlling thread keeps running the   *)
(* slots of the signals queued for it.                                     *)
(***************************************************************************)
\* run() of the worker ends, one way or another
TaskTerminates(id) ==
    \/ TaskReturns(id)
    \/ \E exception \in ServiceErrors : TaskRaises(id, exception)

NextLive ==
    \/ \E request \in PathCalls :
          Call(request, [okay |-> TRUE, fail |-> TRUE], NoExc)
    \/ \E id \in DOMAIN workers : TaskWrites(id)
    \/ \E id \in DOMAIN workers : TaskReturns(id)
    \/ \E id \in DOMAIN workers, exception \in ServiceErrors :
          TaskRaises(id, exception)
    \/ \E truthy \in BOOLEAN : OnSignal(truthy)

SpecLive ==
    /\ Init
    /\ [][NextLive]_vars
    /\ \A id \in 1..MaxWorkers : WF_vars(TaskTerminates(id))
    /\ WF_vars(\E truthy \in BOOLEAN : OnSignal(truthy))

\* C29: every worker that is spawned is followed by the run of its callback,
\* which invokes 'okay' or 'fail' and leaves the path of the worker out of
\* _busy.
C29_EventuallyCompletes ==
    \A id \in 1..MaxWorkers :
        (id \in DOMAIN workers)
            ~> ( /\ last.op = "signal"
                 /\ last.req.id = id
                 /\ id \notin DOMAIN workers
                 /\ last.log # <<>>
                 /\ last.req.task.path \notin Range(busy) )

\* C30: every 'done', 'okay' and 'fail' that the callback of a worker
\* invokes finds _busy without the path of that worker, so that a __call__
\* for that path made from inside it is not refused as busy; and _busy is
\* then as the callback leaves it.
C30_ReleasedBeforeNotified ==
    (last.op = "signal" /\ ~ Raised(last.raised))
        => /\ last.log # <<>>
           /\ \A i \in DOMAIN last.log :
                 /\ ~ InBusy(last.req.task.path, last.log[i].busy)
                 /\ last.log[i].busy = busy

\* 'done' and 'fail' were invoked for a worker whose run() raised, while the
\* path of another worker was in _busy
C30_Witness ==
    /\ last.op = "signal"
    /\ Raised(last.req.exception)
    /\ Len(last.log) >= 2
    /\ last.log[1].cb = "done"
    /\ last.log[2].cb = "fail"
    /\ last.log[2].busy # <<>>

(***************************************************************************)
(* A __call__ that spawns nothing, and whose callbacks the callback of a   *)
(* worker invokes.                                                         *)
(***************************************************************************)
\* the step is a __call__ that was refused: it raised, or it invoked 'fail'
Refused ==
    /\ CallStep
    /\ last'.spawned = 0
    /\ (Raised(last'.raised) \/ CountIn(last'.log, "fail") = 1)

\* C31: a __call__ that is refused (for its callbacks, its text, its service,
\* its options or its path being busy) leaves _busy, the workers, the
\* callbacks of the pool, the ids and the signals as they were; refused as
\* busy, it invokes 'fail' and not 'okay', and the worker of its path is still
\* there, once.  The callbacks kept for a worker are those of the __call__ that
\* spawned it, no step changes them, and the callback of the worker invokes
\* these: 'done' if and only if they hold it, and 'okay' with their path.
C31_RefusedChangesNothing ==
    [][ /\ Refused
           => /\ UNCHANGED <<busy, workers, callbacks, next_id, signals>>
              /\ ~ OkayWith(last'.log, last'.path)
              /\ CountIn(last'.log, "okay") = 0
        /\ (Refused /\ FailedWith(last'.log, "BusyError"))
              => /\ Cardinality({id \in DOMAIN workers' :
                                    workers'[id].task.path = last'.path}) = 1
                 /\ Cardinality({i \in DOMAIN busy' : busy'[i] = last'.path}) = 1
        /\ (CallStep /\ last'.spawned # 0)
              => /\ last'.spawned \notin DOMAIN callbacks
                 /\ callbacks'[last'.spawned] =
                        [callbacks |-> last'.req.callbacks, path |-> last'.path]
        /\ \A id \in DOMAIN callbacks \cap DOMAIN callbacks' :
              callbacks'[id] = callbacks[id]
        /\ SignalStep
              => /\ last'.req.callbacks = callbacks[last'.req.id].callbacks
                 /\ CountIn(last'.log, "done") =
                        (IF "done" \in DOMAIN callbacks[last'.req.id].callbacks
                         THEN 1 ELSE 0)
                 /\ \A i \in DOMAIN last'.log :
                       last'.log[i].cb = "okay"
                           => last'.log[i].arg = callbacks[last'.req.id].path
      ]_vars

\* a __call__ that passed 'done' was refused as busy, for the path of a
\* worker spawned by a __call__ that passed no 'done'
C31_Witness ==
    /\ last.op = "call" /\ last.spawned = 0
    /\ FailedWith(last.log, "BusyError")
    /\ "done" \in DOMAIN last.req.callbacks
    /\ \E id \in DOMAIN callbacks :
          /\ callbacks[id].path = last.path
          /\ "done" \notin DOMAIN callbacks[id].callbacks

\* the callback of a worker spawned without 'done' ran after a __call__ that
\* passed 'done' was made, and invoked no 'done'
C31_WitnessCompleted ==
    /\ last.op = "signal" /\ ~ Raised(last.raised)
    /\ "done" \notin DOMAIN last.req.callbacks
    /\ CountIn(last.log, "done") = 0
    /\ CountIn(last.log, "okay") = 1

C33_OkayOnlyForArtifact ==
    [][ /\ (SignalStep /\ Raised(last'.req.exception))
              => CountIn(last'.log, "okay") = 0
        /\ ( /\ CallStep
             /\ last.op = "signal"
             /\ Raised(last.req.exception)
             /\ next_id = 1
             /\ last'.path = last.req.task.path )
              => ~ OkayWith(last'.log, last'.path)
      ]_vars

\* C33: 'okay' is invoked for a path only when its file is the work of a
\* run() that returned.  When the only worker ever spawned has ended by
\* raising and its callback has invoked 'fail' and no 'okay', so that no run()
\* has returned, a __call__ made next for the path of that worker invokes no
\* 'okay' for it.
C33_LaterCallNotOkay ==
    [][ ( /\ CallStep
          /\ last.op = "signal"
          /\ Raised(last.req.exception)
          /\ CountIn(last.log, "okay") = 0
          /\ next_id = 1
          /\ last'.path = last.req.task.path )
           => ~ OkayWith(last'.log, last'.path)
      ]_vars

(***************************************************************************)
(* The options list kept for a service and the options it declares.        *)
(***************************************************************************)
\* the keys of a list of descriptors, in the order of the list
KeysOf(svc_options) == [i \in DOMAIN svc_options |-> svc_options[i].key]

\* C34: the options list kept for a service holds every option that the
\* service declares, whether or not an earlier call failed building it: a
\* get_options that returns, returns all of them, and a __call__ validates
\* against all of them.
C34_NoTruncatedSchema ==
    /\ \A svc \in SvcIds :
          services[svc].options.set
              => KeysOf(services[svc].options.val) = KeysOf(Declared(svc))
    /\ (last.op = "get_options" /\ ~ Raised(last.raised))
          => KeysOf(last.result) = KeysOf(Declared(last.svc_id))
    /\ Validated => KeysOf(LastSchema) = KeysOf(Declared(last.svc_id))

\* the last call was a __call__ whose options _validate_options returned
\* without a problem
OptionsValid == Validated /\ "path_cache" \in Range(last.steps)

\* C35: whenever _validate_options finds no problem, the keys of the options
\* it returns are exactly the keys of the options list of the service,
\* whatever keys the caller passed; the path is computed from these options
\* and a worker that is spawned passes these options to run().
C35_KeysAreSchemaKeys ==
    OptionsValid
        => /\ DOMAIN last.options = LastSchemaKeys
           /\ last.path = path_cache(last.svc_id, last.text, last.options)
           /\ Spawned => /\ RunOptions = last.options
                         /\ workers[last.spawned].task.path = last.path

\* a worker was spawned by a __call__ that was passed a key that is not
\* declared and was not passed a key that is declared
C35_Witness ==
    /\ OptionsValid /\ Spawned
    /\ LastUnknownKeys # {}
    /\ \E key \in LastSchemaKeys : PassedFor(last.req.options, key) = {}

(***************************************************************************)
(* Router._validate_service on its own, the one statement of __call__ that *)
(* is passed the dict of the caller, with the two dict objects told apart: *)
(* the one passed and the one that the comprehension makes.                *)
(***************************************************************************)
\* a _validate_service that normalizes and validates the dict it is passed,
\* in place
ValidatedDicts_InPlace(options, svc_options, normalized) ==
    With(validate_options(normalized, svc_options),
         LAMBDA v : [passed |-> v.options, made |-> v.options,
                     problems |-> v.problems])

\* the two dicts once _validate_options has run on the dict made by the
\* comprehension, normalized being what the comprehension made
ValidatedDicts(options, svc_options, normalized) ==
    With(validate_options(normalized, svc_options),
         LAMBDA v : [passed |-> options, made |-> v.options,
                     problems |-> v.problems])

validate_service(svc_id, options, ctor) ==
    /\ ctor \in Ctors(svc_id)
    /\ \E st \in {fetch_options(Registry, svc_id, ctor)} :
          /\ services' = st.services
          /\ invoked' = st.invoked
          /\ IF Raised(st.raised)
             THEN last' = Record("validate_service",
                                 [svc_id |-> svc_id, options |-> options],
                                 RegistryOutcome(st), st.raised, <<>>, 0,
                                 [passed |-> options, made |-> <<>>,
                                  problems |-> <<>>])
             ELSE \E normalized \in
                         NormalizedOptions(
                             options, st.services[st.svc_id].options.val) :
                     \E dicts \in
                            {ValidatedDicts(
                                 options, st.services[st.svc_id].options.val,
                                 normalized)} :
                        last' = Record("validate_service",
                                       [svc_id |-> svc_id, options |-> options],
                                       RegistryOutcome(st),
                                       IF dicts.problems # <<>>
                                       THEN Exc("ValueError", TRUE,
                                                "Running the service failed",
                                                dicts.problems)
                                       ELSE NoExc,
                                       <<>>, 0, dicts)
    /\ UNCHANGED <<avail, busy, next_id, callbacks, workers, signals, disk>>

\* the (svc_id, options) that _validate_service is called with
ServiceCalls ==
    {<<request.svc_id, request.options>> : request \in OptionRequests \cup Requests}

NextService ==
    \E call \in ServiceCalls :
        \E ctor \in Ctors(call[1]) : validate_service(call[1], call[2], ctor)

SpecService == Init /\ [][NextService]_vars

C36_WitnessFailed ==
    /\ last.op = "validate_service" /\ last.raised.cls = "ValueError"
    /\ \E key \in DOMAIN last.result.made \cap DOMAIN last.req.options :
          last.result.made[key] # last.req.options[key]

\* C37: a __call__ made with well-formed callbacks invokes its callbacks
\* before it returns exactly when it has no use for run(): when its text, its
\* service or its options are refused, when its path is busy and when the
\* file is there, it invokes 'done', if given, then 'okay' or 'fail', and
\* spawns nothing; when its path is neither busy nor on the disk it returns
\* having invoked nothing, with its worker running, and its callbacks are
\* invoked by the callback of that worker, once the worker has emitted.
C37_SyncIffNoWork ==
    [][ /\ (CallStep /\ CallbacksAssert(last'.req.callbacks))
              => IF last'.path # NoPath /\ ~ last'.existed /\ ~ last'.was_busy
                 THEN /\ ~ Raised(last'.raised)
                      /\ last'.log = <<>>
                      /\ last'.spawned \in DOMAIN workers' \ DOMAIN workers
                      /\ workers'[last'.spawned].pc = "running"
                      /\ callbacks'[last'.spawned].callbacks =
                             last'.req.callbacks
                 ELSE /\ ~ Raised(last'.raised)
                      /\ CountIn(last'.log, "okay")
                             + CountIn(last'.log, "fail") = 1
                      /\ "done" \in DOMAIN last'.req.callbacks
                            => CountIn(last'.log, "done") = 1
                                   /\ last'.log[1].cb = "done"
                      /\ last'.spawned = 0
                      /\ UNCHANGED <<workers, callbacks, busy, signals>>
        /\ (SignalStep /\ last'.log # <<>>)
              => /\ workers[last'.req.id].pc = "emitted"
                 /\ last'.req.callbacks = callbacks[last'.req.id].callbacks
      ]_vars

(***************************************************************************)
(* Reviewer.play_html: the loop over the <tts> tags of a card, each tag    *)
(* passed to the router with a 'fail' that is a lambda of the loop, and    *)
(* the callbacks of the workers it spawns, run later by _on_signal.  A tag *)
(* is known by its place in the html; what the router does with a tag is   *)
(* given with the tag.                                                     *)
(***************************************************************************)
\* how many <tts> tags an html holds at most
MaxTags == 3

\* a tag has no text, has no 'service' attribute, is refused by the router
\* before it returns, is found in the cache, or gets a worker
TagKinds == {"empty", "no_service", "refused", "hit", "miss"}

Htmls == UNION {[1..n -> TagKinds] : n \in 1..MaxTags}

\* the tag that the name 'tag' of play_html stands for when a lambda made in
\* the iteration 'at' is run: the tag of that iteration while the loop is in
\* it, and the last tag of the html once the loop is over
LoopVariable(html, at, looping) == IF looping THEN at ELSE Len(html)

\* the alert that the 'fail' lambda made for the tag 'at' shows
FailAlert(html, at, looping) ==
    [of |-> at, shown |-> LoopVariable(html, at, looping)]

\* the loop from the tag i on: the alerts shown and the tags that got a worker
RECURSIVE PlayTags(_, _, _)
PlayTags(st, html, i) ==
    IF i > Len(html) THEN st
    ELSE IF html[i] = "no_service"
    THEN PlayTags([st EXCEPT !.alerts = Append(@, [of |-> i, shown |-> i])],
                  html, i + 1)
    ELSE IF html[i] = "refused"
    THEN PlayTags([st EXCEPT !.alerts = Append(@, FailAlert(html, i, TRUE))],
                  html, i + 1)
    ELSE IF html[i] = "miss"
    THEN PlayTags([st EXCEPT !.missed = Append(@, i)], html, i + 1)
    ELSE PlayTags(st, html, i + 1)

play_html(html) ==
    /\ last.op = "none"
    /\ \E out \in {PlayTags([alerts |-> <<>>, missed |-> <<>>], html, 1)} :
       LET \* the path of the tag
           TagPath(h, at) ==
               [svc |-> <<"t","a","g">>, digest |-> <<h, at>>, ext |-> "mp3"]
       IN
          /\ next_id + Len(out.missed) <= MaxWorkers
          /\ next_id' = next_id + Len(out.missed)
          /\ busy' = busy \o [k \in 1..Len(out.missed) |->
                                 TagPath(html, out.missed[k])]
          /\ workers' =
                 [id \in DOMAIN workers
                         \cup (next_id + 1)..(next_id + Len(out.missed)) |->
                     IF id \in DOMAIN workers THEN workers[id]
                     ELSE [task |-> [html |-> html, at |-> out.missed[id - next_id],
                                     path |-> TagPath(html, out.missed[id - next_id])],
                           pc |-> "running"]]
          /\ callbacks' =
                 [id \in DOMAIN callbacks
                         \cup (next_id + 1)..(next_id + Len(out.missed)) |->
                     IF id \in DOMAIN callbacks THEN callbacks[id]
                     ELSE [callbacks |-> [okay |-> TRUE, fail |-> TRUE],
                           path |-> TagPath(html, out.missed[id - next_id]),
                           html |-> html, at |-> out.missed[id - next_id]]]
          /\ last' = Record("play_html", [html |-> html], NoOutcome, NoExc,
                            <<>>, 0, out.alerts)
    /\ UNCHANGED <<services, avail, signals, disk, invoked>>

\* _on_signal running the callback of a worker spawned for a tag, whose
\* 'fail' is the lambda of play_html
OnSignalTag(truthy) ==
    /\ signals # <<>>
    /\ \E closure \in {callbacks[Head(signals).id]} :
          /\ busy' = Completion(closure, Head(signals).exception, truthy,
                                busy).busy
          /\ last' = Record("signal",
                            [id |-> Head(signals).id,
                             exception |-> Head(signals).exception,
                             html |-> closure.html, at |-> closure.at],
                            NoOutcome, NoExc,
                            Completion(closure, Head(signals).exception, truthy,
                                       busy).log,
                            0,
                            IF Raised(Head(signals).exception)
                            THEN <<FailAlert(closure.html, closure.at, FALSE)>>
                            ELSE <<>>)
          /\ callbacks' = Without(callbacks, Head(signals).id)
          /\ workers' = Without(workers, Head(signals).id)
    /\ signals' = Tail(signals)
    /\ UNCHANGED <<services, avail, next_id, disk, invoked>>

NextReviewer ==
    \/ \E html \in Htmls : play_html(html)
    \/ \E id \in DOMAIN workers : TaskReturns(id)
    \/ \E id \in DOMAIN workers, exception \in ServiceErrors :
          TaskRaises(id, exception)
    \/ \E truthy \in BOOLEAN : OnSignalTag(truthy)

SpecReviewer == Init /\ [][NextReviewer]_vars

\* C38: every alert that a 'fail' of play_html shows, during the loop or
\* later from the callback of a worker, shows the tag whose dispatch failed.
C38_AlertShowsItsTag ==
    last.op \in {"play_html", "signal"}
        => \A k \in DOMAIN last.result : last.result[k].shown = last.result[k].of

\* what holds of the alerts shown while the loop is running
C38_DuringTheLoop ==
    last.op = "play_html"
        => \A k \in DOMAIN last.result : last.result[k].shown = last.result[k].of

(***************************************************************************)
(* _SubListModel and SubListView: the list of rules, the rows selected in  *)
(* the view and the buttons.  Rows count from 0, as in the code; a rule is *)
(* known by a name.  What is kept of the list view is in last.result.      *)
(***************************************************************************)
\* how many rules the list is let grow to
MaxRows == 4

\* list[start:stop]
Slice(list, start, stop) ==
    LET clamp(i) == IF i < 0
                    THEN (IF Len(list) + i < 0 THEN 0 ELSE Len(list) + i)
                    ELSE (IF i > Len(list) THEN Len(list) ELSE i)
    IN  SubSeq(list, clamp(start) + 1, clamp(stop))

\* raw_data after insertRow(row), row being Unset when it is not passed
insertRow(raw_data, row) ==
    LET at == IF ~ row.set \/ row.val = 0 THEN Len(raw_data) ELSE row.val
    IN  Slice(raw_data, 0, at) \o <<"new">> \o Slice(raw_data, at, Len(raw_data))

\* a moveRowsDown that moves the block past two rules
moveRowsDown_ByTwo(raw_data, row, count) ==
    Slice(raw_data, 0, row)
        \o Slice(raw_data, row + count, row + count + 2)
        \o Slice(raw_data, row, row + count)
        \o Slice(raw_data, row + count + 2, Len(raw_data))

moveRowsDown(raw_data, row, count) ==
    Slice(raw_data, 0, row)
        \o Slice(raw_data, row + count, row + count + 1)
        \o Slice(raw_data, row, row + count)
        \o Slice(raw_data, row + count + 1, Len(raw_data))

moveRowsUp(raw_data, row, count) ==
    Slice(raw_data, 0, row - 1)
        \o Slice(raw_data, row, row + count)
        \o Slice(raw_data, row - 1, row)
        \o Slice(raw_data, row + count, Len(raw_data))

\* an _on_selection that tests only that the rows selected are contiguous
on_selection_AnyBlock(raw_data, rows) ==
    LET some == rows # {}
        first == CHOOSE r \in rows : \A q \in rows : r <= q
        final == CHOOSE r \in rows : \A q \in rows : q <= r
        contiguous == some /\ final = first + Cardinality(rows) - 1
    IN  [raw_data |-> raw_data, selected |-> rows,
         up_btn |-> contiguous, down_btn |-> contiguous, del_btn |-> some]

\* _on_selection: the list view with its buttons enabled for the rows selected
on_selection(raw_data, rows) ==
    LET some == rows # {}
        first == CHOOSE r \in rows : \A q \in rows : r <= q
        final == CHOOSE r \in rows : \A q \in rows : q <= r
        contiguous == some /\ final = first + Cardinality(rows) - 1
    IN  [raw_data |-> raw_data, selected |-> rows,
         up_btn |-> contiguous /\ first > 0,
         down_btn |-> contiguous /\ final < Len(raw_data) - 1,
         del_btn |-> some]

\* the last thing done was done to the list view
ListShown == last.op \in {"setModel", "selectionChanged", "insertRow",
                          "add_rule", "reorder_rules"}

\* SubListView.setModel with a list of at most three rules
setModel(sublist) ==
    /\ last.op = "none"
    /\ last' = Record("setModel", [sublist |-> sublist], NoOutcome, NoExc, <<>>,
                      0, on_selection(sublist, {}))
    /\ UNCHANGED <<services, avail, busy, next_id, callbacks, workers, signals,
                   disk, invoked>>

\* the user selects rows of the view
selectionChanged(rows) ==
    /\ ListShown
    /\ rows \subseteq 0..(Len(last.result.raw_data) - 1)
    /\ rows # last.result.selected
    /\ last' = Record("selectionChanged", [rows |-> rows], NoOutcome, NoExc,
                      <<>>, 0, on_selection(last.result.raw_data, rows))
    /\ UNCHANGED <<services, avail, busy, next_id, callbacks, workers, signals,
                   disk, invoked>>

\* insertRow called with a row, on a model in whose view no row is selected
InsertRowAt(row) ==
    /\ ListShown
    /\ last.result.selected = {}
    /\ Len(last.result.raw_data) < MaxRows
    /\ row \in 0..Len(last.result.raw_data)
    /\ last' = Record("insertRow",
                      [row |-> Set(row), raw_data |-> last.result.raw_data],
                      NoOutcome, NoExc, <<>>, 0,
                      [last.result EXCEPT
                          !.raw_data = insertRow(last.result.raw_data, Set(row))])
    /\ UNCHANGED <<services, avail, busy, next_id, callbacks, workers, signals,
                   disk, invoked>>

\* SubListView._add_rule: the new row is made the current one
add_rule ==
    /\ ListShown
    /\ Len(last.result.raw_data) < MaxRows
    /\ \E raw_data \in {insertRow(last.result.raw_data, Unset)} :
          last' = Record("add_rule",
                         [row |-> Unset, raw_data |-> last.result.raw_data],
                         NoOutcome, NoExc, <<>>, 0,
                         on_selection(raw_data, {Len(raw_data) - 1}))
    /\ UNCHANGED <<services, avail, busy, next_id, callbacks, workers, signals,
                   disk, invoked>>

\* SubListView._reorder_rules, run by a click on a button that is enabled;
\* the selection of the view follows the rows that are moved
reorder_rules(direction) ==
    /\ ListShown
    /\ IF direction = "up" THEN last.result.up_btn ELSE last.result.down_btn
    /\ LET rows == last.result.selected
           first == CHOOSE r \in rows : \A q \in rows : r <= q
           count == Cardinality(rows)
       IN  last' = Record("reorder_rules",
                          [direction |-> direction, rows |-> rows,
                           raw_data |-> last.result.raw_data],
                          NoOutcome, NoExc, <<>>, 0,
                          IF direction = "up"
                          THEN on_selection(
                                   moveRowsUp(last.result.raw_data, first, count),
                                   {r - 1 : r \in rows})
                          ELSE on_selection(
                                   moveRowsDown(last.result.raw_data, first, count),
                                   {r + 1 : r \in rows}))
    /\ UNCHANGED <<services, avail, busy, next_id, callbacks, workers, signals,
                   disk, invoked>>

NextList ==
    \/ \E sublist \in UNION {[1..n -> {"a", "b", "c"}] : n \in 0..3} :
          setModel(sublist)
    \/ \E rows \in SUBSET (0..(MaxRows - 1)) : selectionChanged(rows)
    \/ \E row \in 0..MaxRows : InsertRowAt(row)
    \/ add_rule
    \/ \E direction \in {"up", "down"} : reorder_rules(direction)

SpecList == Init /\ [][NextList]_vars

\* the list with the new rule at the row, the rules from that row on moved
\* down by one
WithNewAt(raw_data, row) ==
    [i \in 1..(Len(raw_data) + 1) |->
        IF i <= row THEN raw_data[i]
        ELSE IF i = row + 1 THEN "new"
        ELSE raw_data[i - 1]]

\* C39: insertRow(row) puts one new rule at the row, for every row from 0 to
\* the length of the list, moves the rules from that row on down by one and
\* leaves the other rules where they were; with no row passed the new rule is
\* put at the end.
C39_InsertedAtRow ==
    last.op \in {"insertRow", "add_rule"}
        => last.result.raw_data =
               WithNewAt(last.req.raw_data,
                         IF last.req.row.set THEN last.req.row.val
                         ELSE Len(last.req.raw_data))

\* what holds for every row but 0
C39_InsertedAtRowButZero ==
    ( /\ last.op \in {"insertRow", "add_rule"}
      /\ ~ (last.req.row.set /\ last.req.row.val = 0) )
        => last.result.raw_data =
               WithNewAt(last.req.raw_data,
                         IF last.req.row.set THEN last.req.row.val
                         ELSE Len(last.req.raw_data))

\* the list with the block of count rules at the row one place further up,
\* the rule that was above the block now below it (row >= 1)
MovedUp(raw_data, row, count) ==
    [i \in 1..Len(raw_data) |->
        IF i >= row /\ i <= row + count - 1 THEN raw_data[i + 1]
        ELSE IF i = row + count THEN raw_data[row]
        ELSE raw_data[i]]

\* the list with the block of count rules at the row one place further down,
\* the rule that was below the block now above it (row + count < length)
MovedDown(raw_data, row, count) ==
    [i \in 1..Len(raw_data) |->
        IF i = row + 1 THEN raw_data[row + count + 1]
        ELSE IF i >= row + 2 /\ i <= row + count + 1 THEN raw_data[i - 1]
        ELSE raw_data[i]]

\* how many times the list holds the rule
TimesIn(raw_data, rule) ==
    Cardinality({i \in DOMAIN raw_data : raw_data[i] = rule})

\* C40: for every block of the list that is in range (row >= 1 to move up,
\* row + count < length to move down), moveRowsUp and moveRowsDown give a list
\* of the same length that holds the same rules as many times, with the block
\* in its order one place further and the one rule next to it on its other
\* side, every other rule in its place; moveRowsUp(row + 1, count) undoes
\* moveRowsDown(row, count).  The up and down buttons are enabled only when
\* the rows selected are such a block, and _reorder_rules moves that block.
C40_BlockMovedByOne ==
    ListShown
        => LET raw_data == last.result.raw_data
               length == Len(raw_data)
               rows == last.result.selected
               first == CHOOSE r \in rows : \A q \in rows : r <= q
               count == Cardinality(rows)
           IN  /\ \A row \in 0..(length - 1), n \in 1..length :
                     /\ (row >= 1 /\ row + n <= length)
                           => /\ moveRowsUp(raw_data, row, n)
                                     = MovedUp(raw_data, row, n)
                              /\ \A rule \in Range(raw_data) :
                                    TimesIn(moveRowsUp(raw_data, row, n), rule)
                                        = TimesIn(raw_data, rule)
                     /\ row + n < length
                           => /\ moveRowsDown(raw_data, row, n)
                                     = MovedDown(raw_data, row, n)
                              /\ \A rule \in Range(raw_data) :
                                    TimesIn(moveRowsDown(raw_data, row, n), rule)
                                        = TimesIn(raw_data, rule)
                              /\ moveRowsUp(moveRowsDown(raw_data, row, n),
                                            row + 1, n) = raw_data
               /\ last.result.up_btn
                     => rows # {} /\ rows = first..(first + count - 1)
                                  /\ first >= 1
               /\ last.result.down_btn
                     => rows # {} /\ rows = first..(first + count - 1)
                                  /\ first + count < length
               /\ last.op = "reorder_rules"
                     => LET old == CHOOSE r \in last.req.rows :
                                       \A q \in last.req.rows : r <= q
                            many == Cardinality(last.req.rows)
                        IN  /\ Len(raw_data) = Len(last.req.raw_data)
                            /\ last.req.rows = old..(old + many - 1)
                            /\ IF last.req.direction = "up"
                               THEN /\ old >= 1
                                    /\ raw_data =
                                           MovedUp(last.req.raw_data, old, many)
                               ELSE /\ old + many < Len(last.req.raw_data)
                                    /\ raw_data =
                                           MovedDown(last.req.raw_data, old, many)

\* a block of two rules was moved down past a third rule, in a list of rules
\* that all differ
C40_Witness ==
    /\ last.op = "reorder_rules"
    /\ last.req.direction = "down"
    /\ Cardinality(last.req.rows) = 2
    /\ \A i, j \in DOMAIN last.req.raw_data :
          last.req.raw_data[i] = last.req.raw_data[j] => i = j
    /\ last.result.raw_data # last.req.raw_data

\* a block of two rules was moved up
C40_WitnessUp ==
    /\ last.op = "reorder_rules"
    /\ last.req.direction = "up"
    /\ Cardinality(last.req.rows) = 2
    /\ last.result.raw_data # last.req.raw_data

====
